---- MODULE Spec2Model ----
(***************************************************************************)
(* Model of radio_datetime_utils: the RadioDateTimeUtils aggregate of      *)
(* src/src/lib.rs with its setters, add_minute(), set_dst(),               *)
(* set_leap_second(), bump_minutes_running() and clear_jumps().            *)
(*                                                                         *)
(* Option<T> is modelled as a sequence: None is <<>>, Some(x) is <<x>>.    *)
(* u8 arithmetic keeps its width: an operation that leaves 0..255 either   *)
(* panics (build with overflow checks) or wraps modulo 256 (build without).*)
(***************************************************************************)
EXTENDS Integers, Sequences, FiniteSets, TLC

\* ------------------------------------------------------------------------
\* Option<T>
\* ------------------------------------------------------------------------
None == <<>>

Some(x) == <<x>>

is_some(o) == o # None

is_none(o) == o = None

unwrap(o) == o[1]

\* ------------------------------------------------------------------------
\* Public constants of lib.rs and u8 bit arithmetic on the masks
\* ------------------------------------------------------------------------
DST_ANNOUNCED == 1

DST_PROCESSED == 2

DST_JUMP == 4

DST_SUMMER == 8

LEAP_ANNOUNCED == 1

LEAP_PROCESSED == 2

LEAP_MISSING == 4

U8_MAX == 255

\* (mask & bit) != 0, for a single-bit constant
HasBit(mask, bit) == (mask \div bit) % 2 = 1

\* mask | bit
BitOr(mask, bit) == IF HasBit(mask, bit) THEN mask ELSE mask + bit

\* mask & !bit
BitClear(mask, bit) == IF HasBit(mask, bit) THEN mask - bit ELSE mask

\* the value a u8 holds after an unchecked (wrapping) operation
WrapU8(x) == x % (U8_MAX + 1)

\* the operation leaves the u8 range: panics when overflow checks are on
OverflowsU8(x) == x < 0 \/ x > U8_MAX

\* ------------------------------------------------------------------------
\* State of one RadioDateTimeUtils instance
\* ------------------------------------------------------------------------
VARIABLES
    year, month, day, weekday, hour, minute,
    dst, leap_second,
    jump_year, jump_month, jump_day, jump_weekday, jump_hour, jump_minute,
    min_weekday, max_weekday,
    minutes_running, dst_count, first_minute, leap_second_count,
    panicked,       \* a call aborted (arithmetic overflow or unwrap of None)
    result,         \* what the most recent call returned: Some(b) for
                    \* add_minute() and is_leap_century(), the Option of
                    \* last_day(), None for the calls that return nothing
    \* what the caller of the instance holds and has seen so far
    second,         \* the second counter it passes to increase_second()
    sunday,         \* the argument it passed to new()
    last_op,        \* name of the most recent call
    minutes_added,  \* number of add_minute() calls that returned true
    call_jumped,    \* per field: the latest set_<field>() call, if no
                    \* clear_jumps() followed it, replaced a present value by
                    \* a different one while check_jump was requested
    accepted_jumped,\* per field: the same, for the latest set_<field>() call
                    \* whose value was accepted
    last_args       \* the arguments of the most recent call, or of the call
                    \* the caller is about to make, where the caller keeps
                    \* them; else <<>>

clock == <<year, month, day, weekday, hour, minute>>

jumps == <<jump_year, jump_month, jump_day, jump_weekday, jump_hour, jump_minute>>

weekday_bounds == <<min_weekday, max_weekday>>

masks == <<dst, leap_second>>

counters == <<minutes_running, dst_count, first_minute, leap_second_count>>

outcome == <<panicked, result>>

observer == <<second, sunday, last_op, minutes_added, call_jumped, accepted_jumped,
             last_args>>

vars == <<clock, jumps, weekday_bounds, masks, counters, outcome, observer>>

\* ------------------------------------------------------------------------
\* new(sunday)
\* ------------------------------------------------------------------------
new(sunday_arg) ==
    /\ year = None
    /\ month = None
    /\ day = None
    /\ weekday = None
    /\ hour = None
    /\ minute = None
    /\ dst = None
    /\ dst_count = 0
    /\ leap_second = None
    /\ leap_second_count = 0
    /\ jump_year = FALSE
    /\ jump_month = FALSE
    /\ jump_day = FALSE
    /\ jump_weekday = FALSE
    /\ jump_hour = FALSE
    /\ jump_minute = FALSE
    /\ min_weekday = (IF sunday_arg # 0 THEN 1 ELSE 0)
    /\ max_weekday = (IF sunday_arg = 7 THEN 7 ELSE 6)
    /\ minutes_running = 0
    /\ first_minute = TRUE

\* is_valid() that asks for the leap second status as well
is_valid_needs_leap_second ==
    /\ is_some(dst)
    /\ is_some(leap_second)
    /\ is_some(year)
    /\ is_some(month)
    /\ is_some(day)
    /\ is_some(weekday)
    /\ is_some(hour)
    /\ is_some(minute)

is_valid ==
    /\ is_some(dst)
    /\ is_some(year)
    /\ is_some(month)
    /\ is_some(day)
    /\ is_some(weekday)
    /\ is_some(hour)
    /\ is_some(minute)

\* ------------------------------------------------------------------------
\* is_leap_century(day, weekday) and last_day(day)
\* ------------------------------------------------------------------------
is_leap_century(d, wday) ==
    LET wd == IF wday = 0 THEN 7 ELSE wday
    IN  IF d < 29
        THEN d + 7 * ((28 - d) \div 7) + (8 - wd) = 28
        ELSE wd = 2

\* last_day() that takes year 0 for a leap year like any multiple of four
last_day_of_every_fourth_year(y, m, wday, d) ==
    IF is_none(y) \/ is_none(m) \/ is_none(wday) \/ ~(d \in 1..31)
    THEN None
    ELSE LET s_year == unwrap(y)
             s_month == unwrap(m)
         IN  IF s_month = 2
             THEN IF s_year % 4 = 0 THEN Some(29) ELSE Some(28)
             ELSE IF s_month = 4 \/ s_month = 6 \/ s_month = 9 \/ s_month = 11
                  THEN Some(30)
                  ELSE Some(31)

\* last_day on explicit field values (the fields are Options)
last_day_of(y, m, wday, d) ==
    IF is_none(y) \/ is_none(m) \/ is_none(wday) \/ ~(d \in 1..31)
    THEN None
    ELSE LET s_year == unwrap(y)
             s_month == unwrap(m)
             s_weekday == unwrap(wday)
         IN  IF s_month = 2
             THEN IF (s_year # 0 /\ s_year % 4 = 0)
                     \/ (s_year = 0 /\ is_leap_century(d, s_weekday))
                  THEN Some(29)
                  ELSE Some(28)
             ELSE IF s_month = 4 \/ s_month = 6 \/ s_month = 9 \/ s_month = 11
                  THEN Some(30)
                  ELSE Some(31)

last_day(d) == last_day_of(year, month, weekday, d)

\* a call of self.last_day(day), as the tests of the module make it
call_last_day(d) ==
    /\ ~panicked
    /\ result' = last_day(d)
    /\ UNCHANGED <<clock, jumps, weekday_bounds, masks, counters, panicked>>

\* a call of RadioDateTimeUtils::is_leap_century(day, weekday)
call_is_leap_century(d, wday) ==
    /\ ~panicked
    /\ result' = Some(is_leap_century(d, wday))
    /\ UNCHANGED <<clock, jumps, weekday_bounds, masks, counters, panicked>>

\* ------------------------------------------------------------------------
\* The six field setters
\* ------------------------------------------------------------------------
\* jumped() without the guard on the old value: a first value counts as a jump
jumped_from_absent(check_jump, new_value, old_value) ==
    check_jump /\ is_some(new_value) /\ new_value # old_value

\* the jump expression shared by all setters:
\* check_jump && new.is_some() && old.is_some() && new != old
jumped(check_jump, new_value, old_value) ==
    check_jump /\ is_some(new_value) /\ is_some(old_value) /\ new_value # old_value

\* stored_year() that forgets the caller's verdict
stored_year_ignores_valid(value, valid) ==
    IF is_some(value) /\ unwrap(value) \in 0..99 THEN value ELSE year

\* let year = if value.is_some() && range.contains(value) && valid { value }
\*            else { self.year }
stored_year(value, valid) ==
    IF is_some(value) /\ unwrap(value) \in 0..99 /\ valid THEN value ELSE year

set_year(value, valid, check_jump) ==
    LET new_year == stored_year(value, valid)
    IN  /\ ~panicked
        /\ jump_year' = jumped(check_jump, new_year, year)
        /\ year' = new_year
        /\ UNCHANGED <<month, day, weekday, hour, minute>>
        /\ UNCHANGED <<jump_month, jump_day, jump_weekday, jump_hour, jump_minute>>
        /\ UNCHANGED <<weekday_bounds, masks, counters, panicked>>
        /\ result' = None

\* let month = if value.is_some() && range.contains(value) && valid { value }
\*            else { self.month }
stored_month(value, valid) ==
    IF is_some(value) /\ unwrap(value) \in 1..12 /\ valid THEN value ELSE month

set_month(value, valid, check_jump) ==
    LET new_month == stored_month(value, valid)
    IN  /\ ~panicked
        /\ jump_month' = jumped(check_jump, new_month, month)
        /\ month' = new_month
        /\ UNCHANGED <<year, day, weekday, hour, minute>>
        /\ UNCHANGED <<jump_year, jump_day, jump_weekday, jump_hour, jump_minute>>
        /\ UNCHANGED <<weekday_bounds, masks, counters, panicked>>
        /\ result' = None

\* let weekday = if value.is_some() && range.contains(value) && valid { value }
\*            else { self.weekday }
stored_weekday(value, valid) ==
    IF is_some(value) /\ unwrap(value) \in min_weekday..max_weekday /\ valid THEN value ELSE weekday

set_weekday(value, valid, check_jump) ==
    LET new_weekday == stored_weekday(value, valid)
    IN  /\ ~panicked
        /\ jump_weekday' = jumped(check_jump, new_weekday, weekday)
        /\ weekday' = new_weekday
        /\ UNCHANGED <<year, month, day, hour, minute>>
        /\ UNCHANGED <<jump_year, jump_month, jump_day, jump_hour, jump_minute>>
        /\ UNCHANGED <<weekday_bounds, masks, counters, panicked>>
        /\ result' = None

\* stored_day() that checks the day against 1..31 instead of the month's last day
stored_day_any_month(value, valid) ==
    IF /\ is_some(value)
       /\ is_some(last_day(unwrap(value)))
       /\ unwrap(value) \in 1..31
       /\ valid
    THEN value
    ELSE day

stored_day(value, valid) ==
    IF /\ is_some(value)
       /\ is_some(last_day(unwrap(value)))
       /\ unwrap(value) \in 1..unwrap(last_day(unwrap(value)))
       /\ valid
    THEN value
    ELSE day

set_day(value, valid, check_jump) ==
    LET new_day == stored_day(value, valid)
    IN  /\ ~panicked
        /\ jump_day' = jumped(check_jump, new_day, day)
        /\ day' = new_day
        /\ UNCHANGED <<year, month, weekday, hour, minute>>
        /\ UNCHANGED <<jump_year, jump_month, jump_weekday, jump_hour, jump_minute>>
        /\ UNCHANGED <<weekday_bounds, masks, counters, panicked>>
        /\ result' = None

\* let hour = if value.is_some() && range.contains(value) && valid { value }
\*            else { self.hour }
stored_hour(value, valid) ==
    IF is_some(value) /\ unwrap(value) \in 0..23 /\ valid THEN value ELSE hour

set_hour(value, valid, check_jump) ==
    LET new_hour == stored_hour(value, valid)
    IN  /\ ~panicked
        /\ jump_hour' = jumped(check_jump, new_hour, hour)
        /\ hour' = new_hour
        /\ UNCHANGED <<year, month, day, weekday, minute>>
        /\ UNCHANGED <<jump_year, jump_month, jump_day, jump_weekday, jump_minute>>
        /\ UNCHANGED <<weekday_bounds, masks, counters, panicked>>
        /\ result' = None

\* stored_minute() without the test for an absent value
stored_minute_takes_absent(value, valid) ==
    IF (is_none(value) \/ unwrap(value) \in 0..59) /\ valid THEN value
                                                              ELSE minute

\* let minute = if value.is_some() && range.contains(value) && valid { value }
\*            else { self.minute }
stored_minute(value, valid) ==
    IF is_some(value) /\ unwrap(value) \in 0..59 /\ valid THEN value ELSE minute

\* set_minute() that also restarts the count of running minutes
set_minute_restarts_running(value, valid, check_jump) ==
    LET new_minute == stored_minute(value, valid)
    IN  /\ ~panicked
        /\ jump_minute' = jumped(check_jump, new_minute, minute)
        /\ minute' = new_minute
        /\ minutes_running' = 0
        /\ UNCHANGED <<year, month, day, weekday, hour>>
        /\ UNCHANGED <<jump_year, jump_month, jump_day, jump_weekday, jump_hour>>
        /\ UNCHANGED <<weekday_bounds, masks, panicked>>
        /\ result' = None
        /\ UNCHANGED <<dst_count, first_minute, leap_second_count>>

set_minute(value, valid, check_jump) ==
    LET new_minute == stored_minute(value, valid)
    IN  /\ ~panicked
        /\ jump_minute' = jumped(check_jump, new_minute, minute)
        /\ minute' = new_minute
        /\ UNCHANGED <<year, month, day, weekday, hour>>
        /\ UNCHANGED <<jump_year, jump_month, jump_day, jump_weekday, jump_hour>>
        /\ UNCHANGED <<weekday_bounds, masks, counters, panicked>>
        /\ result' = None

\* ------------------------------------------------------------------------
\* clear_jumps()
\* ------------------------------------------------------------------------
\* a mask that is reset as a whole
clear_jumps_dst_whole == IF is_some(dst) THEN Some(0) ELSE dst

\* if self.dst.is_some() { self.dst = Some(self.dst.unwrap() & !DST_JUMP) }
clear_jumps_dst ==
    IF is_some(dst) THEN Some(BitClear(unwrap(dst), DST_JUMP)) ELSE dst

\* clear_jumps() that forgets the minute's flag
clear_jumps_keeps_minute ==
    /\ ~panicked
    /\ jump_year' = FALSE
    /\ jump_month' = FALSE
    /\ jump_day' = FALSE
    /\ jump_weekday' = FALSE
    /\ jump_hour' = FALSE
    /\ UNCHANGED jump_minute
    /\ dst' = clear_jumps_dst
    /\ UNCHANGED <<clock, weekday_bounds, leap_second, counters>>
    /\ UNCHANGED panicked
    /\ result' = None

clear_jumps ==
    /\ ~panicked
    /\ jump_year' = FALSE
    /\ jump_month' = FALSE
    /\ jump_day' = FALSE
    /\ jump_weekday' = FALSE
    /\ jump_hour' = FALSE
    /\ jump_minute' = FALSE
    /\ dst' = clear_jumps_dst
    /\ UNCHANGED <<clock, weekday_bounds, leap_second, counters>>
    /\ UNCHANGED panicked
    /\ result' = None

\* ------------------------------------------------------------------------
\* add_minute()
\* ------------------------------------------------------------------------
\* the weekday increment without the wrap to min_weekday
next_weekday_never_wraps(s_weekday) == WrapU8(s_weekday + 1)

\* s_weekday += 1; if s_weekday == self.max_weekday + 1 { s_weekday = self.min_weekday; }
next_weekday(s_weekday) ==
    IF WrapU8(s_weekday + 1) = max_weekday + 1 THEN min_weekday
                                               ELSE WrapU8(s_weekday + 1)

\* the day rollover tested against 31 instead of the month's last day
day_rolls_after_31(s_day, old_last_day) == WrapU8(s_day + 1) > 31

\* s_day += 1; if s_day > old_last_day { ... }
day_rolls(s_day, old_last_day) == WrapU8(s_day + 1) > old_last_day

\* the month increment without the wrap to 1
next_month_never_wraps(s_month) == WrapU8(s_month + 1)

\* s_month += 1; if s_month == 13 { s_month = 1; ... }
next_month(s_month) ==
    IF WrapU8(s_month + 1) = 13 THEN 1 ELSE WrapU8(s_month + 1)

\* the year increment wrapping one year late
next_year_wraps_late(s_year) ==
    IF WrapU8(s_year + 1) = 101 THEN 0 ELSE WrapU8(s_year + 1)

\* s_year += 1; if s_year == 100 { s_year = 0; }
next_year(s_year) ==
    IF WrapU8(s_year + 1) = 100 THEN 0 ELSE WrapU8(s_year + 1)

\* the hour adjustment for an announced change with its signs swapped
pre_adjusted_hour_swapped(s_hour, mask) ==
    IF HasBit(mask, DST_ANNOUNCED)
    THEN IF HasBit(mask, DST_SUMMER) THEN s_hour + 1 ELSE s_hour - 1
    ELSE s_hour

\* if (dst & DST_ANNOUNCED) != 0 { if (dst & DST_SUMMER) != 0 { s_hour -= 1 }
\* else { s_hour += 1 } }, before the subtraction or addition is narrowed to
\* a u8: -1 is the underflow
pre_adjusted_hour(s_hour, mask) ==
    IF HasBit(mask, DST_ANNOUNCED)
    THEN IF HasBit(mask, DST_SUMMER) THEN s_hour - 1 \* changing to winter
                                     ELSE s_hour + 1 \* changing to summer
    ELSE s_hour

\* add_minute() that lowers the jump flags, as a fresh prediction would
add_minute_keeps_but_flags ==
    /\ jump_year' = FALSE
    /\ jump_month' = FALSE
    /\ jump_day' = FALSE
    /\ jump_weekday' = FALSE
    /\ jump_hour' = FALSE
    /\ jump_minute' = FALSE
    /\ UNCHANGED <<weekday_bounds, masks, counters>>

\* what a successful add_minute() does not assign
add_minute_keeps == UNCHANGED <<jumps, weekday_bounds, masks, counters>>

add_minute ==
    /\ ~panicked
    /\ IF ~is_valid
       THEN /\ result' = Some(FALSE)
            /\ UNCHANGED <<clock, jumps, weekday_bounds, masks, counters>>
            /\ UNCHANGED panicked
       ELSE LET minute_raw == unwrap(minute) + 1
                minute_roll == WrapU8(minute_raw) = 60
                s_minute == IF minute_roll THEN 0 ELSE WrapU8(minute_raw)
                hour_adj_raw == IF minute_roll
                                THEN pre_adjusted_hour(unwrap(hour), unwrap(dst))
                                ELSE unwrap(hour)
                \* s_hour += 1
                hour_raw == IF minute_roll THEN WrapU8(hour_adj_raw) + 1
                                           ELSE WrapU8(hour_adj_raw)
                hour_roll == minute_roll /\ WrapU8(hour_raw) = 24
                s_hour == IF hour_roll THEN 0 ELSE WrapU8(hour_raw)
                old_last_day == last_day(unwrap(day))
                s_weekday == IF hour_roll THEN next_weekday(unwrap(weekday))
                                          ELSE unwrap(weekday)
                day_roll == /\ hour_roll
                            /\ is_some(old_last_day)
                            /\ day_rolls(unwrap(day), unwrap(old_last_day))
                s_day == IF hour_roll
                         THEN IF day_roll THEN 1 ELSE WrapU8(unwrap(day) + 1)
                         ELSE unwrap(day)
                month_roll == day_roll /\ WrapU8(unwrap(month) + 1) = 13
                s_month == IF day_roll THEN next_month(unwrap(month))
                                       ELSE unwrap(month)
                s_year == IF month_roll THEN next_year(unwrap(year))
                                        ELSE unwrap(year)
                \* self.last_day(s_day).unwrap() on None aborts in every build
                unwrap_none == hour_roll /\ is_none(old_last_day)
                overflow == \/ OverflowsU8(minute_raw)
                            \/ OverflowsU8(hour_adj_raw)
                            \/ OverflowsU8(hour_raw)
                            \/ hour_roll /\ OverflowsU8(unwrap(weekday) + 1)
                            \/ hour_roll /\ OverflowsU8(max_weekday + 1)
                            \/ hour_roll /\ OverflowsU8(unwrap(day) + 1)
                            \/ day_roll /\ OverflowsU8(unwrap(month) + 1)
                            \/ month_roll /\ OverflowsU8(unwrap(year) + 1)
                builds == IF unwrap_none THEN {TRUE}
                          ELSE IF overflow THEN BOOLEAN ELSE {FALSE}
            IN  \E aborts \in builds :
                    IF aborts
                    THEN /\ panicked' = TRUE
                         /\ UNCHANGED <<clock, jumps, weekday_bounds, masks, counters>>
                         /\ result' = None
                    ELSE /\ minute' = Some(s_minute)
                         /\ hour' = Some(s_hour)
                         /\ day' = Some(s_day)
                         /\ weekday' = Some(s_weekday)
                         /\ month' = Some(s_month)
                         /\ year' = Some(s_year)
                         /\ result' = Some(TRUE)
                         /\ add_minute_keeps
                         /\ UNCHANGED panicked

\* ------------------------------------------------------------------------
\* The steps shared by set_dst() and set_leap_second()
\* ------------------------------------------------------------------------
\* a majority that is reached at one half already
is_announced_at_half(count) == WrapU8(2 * count) >= minutes_running

\* 2 * count > minutes_running on u8: the announcement has the majority of
\* the minutes of this hour
is_announced(count) == WrapU8(2 * count) > minutes_running

\* a minute that is taken to be within the hour also when it is absent
minute_not_at_hour == minute # Some(0)

\* self.minute.is_some() && self.minute.unwrap() > 0: the majority is
\* evaluated only within the hour of a known minute
minute_in_hour == is_some(minute) /\ unwrap(minute) > 0

\* an announcement that is never counted
counted_never(count, announce) == count

\* "Determine if a ... is announced": the counter after this call's
\* announcement, before it is fitted into the u8
counted(count, announce) == IF announce = Some(TRUE) THEN count + 1 ELSE count

\* an announcement counter that is carried over the hour
count_kept_at_hour(count) == count

\* "Always reset announcement at the hour": the counter the call leaves
count_at_hour(count) == IF minute = Some(0) THEN 0 ELSE count

\* ------------------------------------------------------------------------
\* set_dst(value, announce, check_jump)
\* ------------------------------------------------------------------------
\* a change that is valid at the hour only, the first call included
change_is_valid_at_hour_only(mask) ==
    HasBit(mask, DST_ANNOUNCED) /\ minute = Some(0)

\* "Change is valid": the first effective call, or announced and at the hour
change_is_valid(mask) ==
    first_minute \/ (HasBit(mask, DST_ANNOUNCED) /\ minute = Some(0))

\* an unexpected change that is flagged whether asked for or not
time_offset_always_flagged(mask, value, check_jump) ==
    IF value # HasBit(mask, DST_SUMMER)
    THEN IF change_is_valid(mask)
         THEN IF value THEN BitOr(mask, DST_SUMMER)
                       ELSE BitClear(mask, DST_SUMMER)
         ELSE BitOr(mask, DST_JUMP)
    ELSE mask

\* "Time offset changed": the mask after the passed value was compared with
\* DST_SUMMER
time_offset(mask, value, check_jump) ==
    IF value # HasBit(mask, DST_SUMMER)
    THEN IF change_is_valid(mask)
         THEN IF value THEN BitOr(mask, DST_SUMMER)
                       ELSE BitClear(mask, DST_SUMMER)
         ELSE IF check_jump THEN BitOr(mask, DST_JUMP) ELSE mask
    ELSE mask

\* DST_PROCESSED that stays once it is set
dst_processed_stays(mask) ==
    IF minute = Some(0) /\ HasBit(mask, DST_ANNOUNCED)
    THEN BitOr(mask, DST_PROCESSED)
    ELSE mask

\* "DST change processed": set at the hour when announced, cleared in every
\* other minute
dst_processed(mask) ==
    IF minute = Some(0) /\ HasBit(mask, DST_ANNOUNCED)
    THEN BitOr(mask, DST_PROCESSED)
    ELSE IF is_some(minute) THEN BitClear(mask, DST_PROCESSED)
                            ELSE mask

\* a call that is ignored only for an absent value
dst_ignored_for_value_only(value, announce) == is_none(value)

\* the call returns at once
dst_ignored(value, announce) == is_none(value) \/ is_none(announce)

\* an announcement that stays in the mask over the hour
announcement_kept(mask) == mask

\* "Always reset announcement at the hour": the mask the call leaves
announcement_reset(mask) ==
    IF minute = Some(0) THEN BitClear(mask, DST_ANNOUNCED) ELSE mask

\* a jump flag that stays until it is raised again
jump_kept(mask) == mask

\* "Clear any jump flag from the previous decoding"
jump_cleared(mask) == BitClear(mask, DST_JUMP)

set_dst(value, announce, check_jump) ==
    /\ ~panicked
    /\ UNCHANGED <<clock, jumps, weekday_bounds, leap_second>>
    /\ UNCHANGED <<minutes_running, leap_second_count>>
    /\ result' = None
    /\ IF dst_ignored(value, announce)
       THEN UNCHANGED <<dst, dst_count, first_minute, panicked>>
       ELSE LET d0 == IF is_none(dst) THEN 0 ELSE unwrap(dst)
                d1 == jump_cleared(d0)
                count_raw == counted(dst_count, announce)
                count1 == WrapU8(count_raw)
                in_hour == minute_in_hour
                at_hour == minute = Some(0)
                twice_raw == 2 * count1
                d2 == IF in_hour
                      THEN IF is_announced(count1)
                           THEN BitOr(d1, DST_ANNOUNCED)
                           ELSE BitClear(d1, DST_ANNOUNCED)
                      ELSE d1
                d3 == time_offset(d2, unwrap(value), check_jump)
                d4 == dst_processed(d3)
                d5 == announcement_reset(d4)
                count2 == count_at_hour(count1)
                overflow_count == OverflowsU8(count_raw)
                overflow_twice == in_hour /\ OverflowsU8(twice_raw)
                builds == IF overflow_count \/ overflow_twice THEN BOOLEAN
                                                              ELSE {FALSE}
            IN  \E aborts \in builds :
                    IF aborts
                    THEN /\ panicked' = TRUE
                         /\ dst' = Some(d1)
                         /\ dst_count' = (IF overflow_count THEN dst_count ELSE count1)
                         /\ UNCHANGED first_minute
                    ELSE /\ dst' = Some(d5)
                         /\ dst_count' = count2
                         /\ first_minute' = FALSE
                         /\ UNCHANGED panicked

\* ------------------------------------------------------------------------
\* set_leap_second(announce, minute_length)
\* ------------------------------------------------------------------------
\* the call returns at once
leap_second_ignored(announce, minute_length) ==
    is_none(announce) \/ ~(minute_length \in 60..61)

\* a leap second that stays missing when it is no longer processed
leap_second_cleared_processed_only(mask) == BitClear(mask, LEAP_PROCESSED)

\* self.leap_second.unwrap() & !LEAP_PROCESSED & !LEAP_MISSING
leap_second_cleared(mask) ==
    BitClear(BitClear(mask, LEAP_PROCESSED), LEAP_MISSING)

\* a processed leap second that is never reported missing
leap_second_processed_as_present(mask, minute_length) ==
    IF minute = Some(0) /\ HasBit(mask, LEAP_ANNOUNCED)
    THEN BitClear(BitOr(mask, LEAP_PROCESSED), LEAP_MISSING)
    ELSE IF is_some(minute)
         THEN BitClear(BitClear(mask, LEAP_PROCESSED), LEAP_MISSING)
         ELSE mask

\* "Process possible leap second": processed at the hour when announced,
\* missing when the minute had 60 seconds; cleared in every other minute
leap_second_processed(mask, minute_length) ==
    IF minute = Some(0) /\ HasBit(mask, LEAP_ANNOUNCED)
    THEN IF minute_length = 60
         THEN BitOr(BitOr(mask, LEAP_PROCESSED), LEAP_MISSING)
         ELSE BitClear(BitOr(mask, LEAP_PROCESSED), LEAP_MISSING)
    ELSE IF is_some(minute)
         THEN leap_second_cleared(mask)
         ELSE mask

set_leap_second(announce, minute_length) ==
    /\ ~panicked
    /\ UNCHANGED <<clock, jumps, weekday_bounds, dst>>
    /\ UNCHANGED <<minutes_running, dst_count, first_minute>>
    /\ result' = None
    /\ IF leap_second_ignored(announce, minute_length)
       THEN UNCHANGED <<leap_second, leap_second_count, panicked>>
       ELSE LET l0 == IF is_none(leap_second) THEN 0 ELSE unwrap(leap_second)
                count_raw == counted(leap_second_count, announce)
                count1 == WrapU8(count_raw)
                in_hour == minute_in_hour
                at_hour == minute = Some(0)
                twice_raw == 2 * count1
                l1 == IF in_hour
                      THEN IF is_announced(count1)
                           THEN BitOr(l0, LEAP_ANNOUNCED)
                           ELSE BitClear(l0, LEAP_ANNOUNCED)
                      ELSE l0
                l2 == leap_second_processed(l1, minute_length)
                \* Always reset announcement at the hour
                l3 == IF at_hour THEN BitClear(l2, LEAP_ANNOUNCED) ELSE l2
                count2 == count_at_hour(count1)
                overflow_count == OverflowsU8(count_raw)
                overflow_twice == in_hour /\ OverflowsU8(twice_raw)
                builds == IF overflow_count \/ overflow_twice THEN BOOLEAN
                                                              ELSE {FALSE}
            IN  \E aborts \in builds :
                    IF aborts
                    THEN /\ panicked' = TRUE
                         /\ leap_second' = Some(l0)
                         /\ leap_second_count' =
                                (IF overflow_count THEN leap_second_count ELSE count1)
                    ELSE /\ leap_second' = Some(l3)
                         /\ leap_second_count' = count2
                         /\ UNCHANGED panicked

\* ------------------------------------------------------------------------
\* bump_minutes_running()
\* ------------------------------------------------------------------------
\* a counter that runs on over the top of the hour
bump_minutes_running_over_hour ==
    LET running_raw == minutes_running + 1
        builds == IF OverflowsU8(running_raw) THEN BOOLEAN ELSE {FALSE}
    IN  /\ ~panicked
        /\ UNCHANGED <<clock, jumps, weekday_bounds, masks>>
        /\ UNCHANGED <<dst_count, first_minute, leap_second_count>>
        /\ result' = None
        /\ \E aborts \in builds :
               IF aborts
               THEN /\ panicked' = TRUE
                    /\ UNCHANGED minutes_running
               ELSE /\ minutes_running' = WrapU8(running_raw)
                    /\ UNCHANGED panicked

bump_minutes_running ==
    LET running_raw == minutes_running + 1
        builds == IF OverflowsU8(running_raw) THEN BOOLEAN ELSE {FALSE}
    IN  /\ ~panicked
        /\ UNCHANGED <<clock, jumps, weekday_bounds, masks>>
        /\ UNCHANGED <<dst_count, first_minute, leap_second_count>>
        /\ result' = None
        /\ \E aborts \in builds :
               IF aborts
               THEN /\ panicked' = TRUE
                    /\ UNCHANGED minutes_running
               ELSE /\ minutes_running' =
                           (IF minute = Some(0) THEN 0 ELSE WrapU8(running_raw))
                    /\ UNCHANGED panicked

\* ------------------------------------------------------------------------
\* Construction
\* ------------------------------------------------------------------------
\* the documented conventions 7 (DCF77) and 0 (MSF), and a value that is
\* neither
SundayInputs == {0, 3, 7}

Fields == {"year", "month", "day", "weekday", "hour", "minute"}

Init ==
    /\ sunday \in SundayInputs
    /\ new(sunday)
    /\ panicked = FALSE
    /\ result = None
    /\ last_op = "new"
    /\ minutes_added = 0
    /\ call_jumped = [f \in Fields |-> FALSE]
    /\ accepted_jumped = [f \in Fields |-> FALSE]
    /\ second = 0
    /\ last_args = <<>>

\* the caller notes which call it made
Seen(op) ==
    /\ last_op' = op
    /\ last_args' = <<>>
    /\ UNCHANGED <<second, sunday, minutes_added, call_jumped, accepted_jumped>>

\* the caller notes a call and the arguments it passed
SeenCall(op, args) ==
    /\ last_op' = op
    /\ last_args' = args
    /\ UNCHANGED <<second, sunday, minutes_added, call_jumped, accepted_jumped>>

SetterOps == {"set_year", "set_month", "set_day", "set_weekday", "set_hour", "set_minute"}

\* ------------------------------------------------------------------------
\* SpecSetters: the six setters and clear_jumps(), with present, absent,
\* in-range and out-of-range values, valid or not, jump-checked or not
\* ------------------------------------------------------------------------
YearInputs == {None, Some(0), Some(20), Some(100)}

MonthInputs == {None, Some(0), Some(2), Some(12), Some(13)}

WeekdayInputs == {None, Some(0), Some(2), Some(7), Some(8)}

DayInputs == {None, Some(0), Some(29), Some(31), Some(32)}

HourInputs == {None, Some(23), Some(24)}

MinuteInputs == {None, Some(0), Some(59), Some(60)}

SetYear ==
    \E value \in YearInputs, valid \in BOOLEAN, check_jump \in BOOLEAN :
        set_year(value, valid, check_jump) /\ Seen("set_year")

SetMonth ==
    \E value \in MonthInputs, valid \in BOOLEAN, check_jump \in BOOLEAN :
        set_month(value, valid, check_jump) /\ Seen("set_month")

SetWeekday ==
    \E value \in WeekdayInputs, valid \in BOOLEAN, check_jump \in BOOLEAN :
        set_weekday(value, valid, check_jump) /\ Seen("set_weekday")

SetDay ==
    \E value \in DayInputs, valid \in BOOLEAN, check_jump \in BOOLEAN :
        set_day(value, valid, check_jump) /\ Seen("set_day")

SetHour ==
    \E value \in HourInputs, valid \in BOOLEAN, check_jump \in BOOLEAN :
        set_hour(value, valid, check_jump) /\ Seen("set_hour")

SetMinute ==
    \E value \in MinuteInputs, valid \in BOOLEAN, check_jump \in BOOLEAN :
        set_minute(value, valid, check_jump) /\ Seen("set_minute")

ClearJumps == clear_jumps /\ Seen("clear_jumps")

NextSetters ==
    \/ SetYear
    \/ SetMonth
    \/ SetWeekday
    \/ SetDay
    \/ SetHour
    \/ SetMinute
    \/ ClearJumps

SpecSetters == Init /\ [][NextSetters]_vars

\* ------------------------------------------------------------------------
\* C2. set_year, set_month, set_weekday, set_hour and set_minute store the
\* passed value exactly when it is present, valid is true and it lies in
\* the field's range (year 0..99, month 1..12, weekday
\* min_weekday..max_weekday, hour 0..23, minute 0..59); in every other case
\* the stored field keeps its previous value.
\* In every reachable state and for every input, the value the setter
\* stores is the one the claim names; and every step of one of these
\* setters either keeps the field or leaves an in-range value in it.
\* ------------------------------------------------------------------------
Within(value, low, high) ==
    is_some(value) /\ low <= unwrap(value) /\ unwrap(value) <= high

C2_Stores ==
    /\ \A v \in YearInputs, valid \in BOOLEAN :
           stored_year(v, valid) = (IF valid /\ Within(v, 0, 99) THEN v ELSE year)
    /\ \A v \in MonthInputs, valid \in BOOLEAN :
           stored_month(v, valid) = (IF valid /\ Within(v, 1, 12) THEN v ELSE month)
    /\ \A v \in WeekdayInputs, valid \in BOOLEAN :
           stored_weekday(v, valid) =
               (IF valid /\ Within(v, min_weekday, max_weekday) THEN v ELSE weekday)
    /\ \A v \in HourInputs, valid \in BOOLEAN :
           stored_hour(v, valid) = (IF valid /\ Within(v, 0, 23) THEN v ELSE hour)
    /\ \A v \in MinuteInputs, valid \in BOOLEAN :
           stored_minute(v, valid) = (IF valid /\ Within(v, 0, 59) THEN v ELSE minute)

C2_Step ==
    /\ last_op' = "set_year" => year' = year \/ Within(year', 0, 99)
    /\ last_op' = "set_month" => month' = month \/ Within(month', 1, 12)
    /\ last_op' = "set_weekday" =>
           weekday' = weekday \/ Within(weekday', min_weekday, max_weekday)
    /\ last_op' = "set_hour" => hour' = hour \/ Within(hour', 0, 23)
    /\ last_op' = "set_minute" => minute' = minute \/ Within(minute', 0, 59)

C2_SetterStoresExactlyValidInRange == [](C2_Stores) /\ [][C2_Step]_vars

\* the five setters have each stored a value (no other operation of
\* SpecSetters gives these fields a value), and the latest call was one of
\* them
C2_Witness ==
    /\ year = Some(20)
    /\ month = Some(12)
    /\ weekday = Some(2)
    /\ hour = Some(23)
    /\ minute = Some(59)
    /\ last_op = "set_minute"

\* ------------------------------------------------------------------------
\* C3. set_day stores the passed day exactly when the value is present,
\* valid is true, year, month and weekday are all present, and
\* 1 <= value <= last day of the month computed from the stored year, month
\* and weekday together with the candidate day; otherwise the previous day
\* is kept (so set_day before year, month or weekday is set leaves day
\* absent).
\* ------------------------------------------------------------------------
C3_DayFits(v) ==
    /\ is_some(v)
    /\ is_some(year)
    /\ is_some(month)
    /\ is_some(weekday)
    /\ 1 <= unwrap(v)
    /\ LET last == last_day_of(year, month, weekday, unwrap(v))
       IN  is_some(last) /\ unwrap(v) <= unwrap(last)

C3_Stores ==
    \A v \in DayInputs, valid \in BOOLEAN :
        stored_day(v, valid) = (IF valid /\ C3_DayFits(v) THEN v ELSE day)

C3_Step ==
    last_op' = "set_day" =>
        /\ day' = day \/ C3_DayFits(day')
        /\ is_none(year) \/ is_none(month) \/ is_none(weekday) => day' = day

C3_SetDayStoresExactlyWithinMonth == [](C3_Stores) /\ [][C3_Step]_vars

\* set_day has just stored 29 in February of year 0, which only the
\* century-leap rule on the stored weekday allows
C3_Witness ==
    /\ last_op = "set_day"
    /\ day = Some(29)
    /\ month = Some(2)
    /\ year = Some(0)
    /\ weekday = Some(2)

\* ------------------------------------------------------------------------
\* C4. After any call to a field setter, that field's jump flag is true
\* exactly when check_jump was true, the field held a value before the call
\* and the value stored after the call differs from it; otherwise it is
\* false.  The first accepted value never raises the flag, and a rejected
\* value never changes the stored value and never raises the flag.
\* ------------------------------------------------------------------------
C4_Flag(check_jump, before, after) ==
    jumped(check_jump, after, before)
        = (check_jump /\ is_some(before) /\ after # before)

C4_Flags ==
    \A valid \in BOOLEAN, cj \in BOOLEAN :
        /\ \A v \in YearInputs : C4_Flag(cj, year, stored_year(v, valid))
        /\ \A v \in MonthInputs : C4_Flag(cj, month, stored_month(v, valid))
        /\ \A v \in DayInputs : C4_Flag(cj, day, stored_day(v, valid))
        /\ \A v \in WeekdayInputs : C4_Flag(cj, weekday, stored_weekday(v, valid))
        /\ \A v \in HourInputs : C4_Flag(cj, hour, stored_hour(v, valid))
        /\ \A v \in MinuteInputs : C4_Flag(cj, minute, stored_minute(v, valid))

\* a raised flag means a present value was replaced by a different one; so
\* a first value and a kept value leave the flag down
C4_Step ==
    /\ last_op' = "set_year" => (jump_year' => is_some(year) /\ year' # year)
    /\ last_op' = "set_month" => (jump_month' => is_some(month) /\ month' # month)
    /\ last_op' = "set_day" => (jump_day' => is_some(day) /\ day' # day)
    /\ last_op' = "set_weekday" =>
           (jump_weekday' => is_some(weekday) /\ weekday' # weekday)
    /\ last_op' = "set_hour" => (jump_hour' => is_some(hour) /\ hour' # hour)
    /\ last_op' = "set_minute" =>
           (jump_minute' => is_some(minute) /\ minute' # minute)

C4_JumpFlagExactlyOnCheckedChange == [](C4_Flags) /\ [][C4_Step]_vars

\* set_year replaced year 0 by 20 with check_jump, the flag is up
C4_Witness ==
    /\ last_op = "set_year"
    /\ jump_year
    /\ year = Some(20)

\* ------------------------------------------------------------------------
\* SpecClock: the clock driven to its rollovers.  The setters put the clock
\* just before a rollover (or are refused an out-of-range value), set_dst()
\* makes the instance valid and announces a change at most once an hour,
\* add_minute() advances.
\* ------------------------------------------------------------------------
\* add_minute() is called with success at most this many times
MaxMinutesAdded == 1

\* bump_minutes_running() is called while minutes_running is below this
MaxCount == 2

ClockYears == {Some(99), Some(100)}

ClockMonths == {Some(2), Some(12), Some(13)}

ClockWeekdays == {Some(6), Some(7), Some(8)}

ClockDays == {Some(0), Some(28), Some(31), Some(32)}

ClockHours == {Some(0), Some(23), Some(24)}

ClockMinutes == {Some(59), Some(60)}

ClockSetYear ==
    \E value \in ClockYears :
        set_year(value, TRUE, FALSE) /\ Seen("set_year")

ClockSetMonth ==
    \E value \in ClockMonths :
        set_month(value, TRUE, FALSE) /\ Seen("set_month")

ClockSetWeekday ==
    \E value \in ClockWeekdays :
        set_weekday(value, TRUE, FALSE) /\ Seen("set_weekday")

ClockSetDay ==
    \E value \in ClockDays :
        set_day(value, TRUE, FALSE) /\ Seen("set_day")

ClockSetHour ==
    \E value \in ClockHours :
        set_hour(value, TRUE, FALSE) /\ Seen("set_hour")

ClockSetMinute ==
    \E value \in ClockMinutes :
        set_minute(value, TRUE, FALSE) /\ Seen("set_minute")

ClockSetDst ==
    \E value \in BOOLEAN, announce \in BOOLEAN :
        /\ announce => dst_count = 0
        /\ set_dst(Some(value), Some(announce), FALSE)
        /\ Seen("set_dst")

AddMinute ==
    /\ is_valid => minutes_added < MaxMinutesAdded
    /\ add_minute
    /\ last_op' = "add_minute"
    /\ minutes_added' = (IF result' = Some(TRUE) /\ ~panicked'
                         THEN minutes_added + 1 ELSE minutes_added)
    /\ last_args' = <<>>
    /\ UNCHANGED <<second, sunday, call_jumped, accepted_jumped>>

NextClock ==
    \/ ClockSetYear
    \/ ClockSetMonth
    \/ ClockSetWeekday
    \/ ClockSetDay
    \/ ClockSetHour
    \/ ClockSetMinute
    \/ ClockSetDst
    \/ AddMinute

SpecClock == Init /\ [][NextClock]_vars

\* the step is a call of add_minute() that returned true
Added == minutes_added' = minutes_added + 1

\* ------------------------------------------------------------------------
\* C7. new(sunday) fixes min_weekday to 0 if sunday is 0 and to 1 otherwise,
\* and max_weekday to 7 if sunday is 7 and to 6 otherwise; the two bounds
\* never change afterwards, and in every state reachable through the setters
\* and add_minute() a present weekday lies within [min_weekday, max_weekday].
\* ------------------------------------------------------------------------
C7_Bounds ==
    /\ min_weekday = (IF sunday = 0 THEN 0 ELSE 1)
    /\ max_weekday = (IF sunday = 7 THEN 7 ELSE 6)
    /\ is_some(weekday) => /\ unwrap(weekday) >= min_weekday
                           /\ unwrap(weekday) <= max_weekday

C7_WeekdayWithinFixedBounds ==
    [](C7_Bounds) /\ [][UNCHANGED weekday_bounds]_vars

\* add_minute() passed midnight on the last weekday of the week and wrapped
\* the weekday to min_weekday, which no setter was given here
C7_Witness ==
    /\ last_op = "add_minute"
    /\ result = Some(TRUE)
    /\ hour = Some(0)
    /\ minute = Some(0)
    /\ weekday = Some(min_weekday)

\* ------------------------------------------------------------------------
\* C8. Right after set_day() stores a new value, and after every
\* add_minute() that returned true from a state where it held, the day does
\* not exceed the last day of the month computed from the stored year, month
\* and weekday; set_year(), set_month() and set_weekday() do not look at the
\* stored day, and in every state a present day is at most 31.
\* ------------------------------------------------------------------------
DayWithinMonth ==
    is_some(year) /\ is_some(month) /\ is_some(weekday) /\ is_some(day)
        => /\ is_some(last_day(unwrap(day)))
           /\ unwrap(day) <= unwrap(last_day(unwrap(day)))

C8_Step ==
    /\ last_op' = "set_day" /\ day' # day => DayWithinMonth'
    /\ Added /\ DayWithinMonth => DayWithinMonth'
    /\ last_op' \in {"set_year", "set_month", "set_weekday"} => day' = day

C8_DayWithinMonthAfterSetDayAndAddMinute ==
    [](is_some(day) => unwrap(day) <= 31) /\ [][C8_Step]_vars

\* add_minute() went from 28 February 23:59 to 1 March 00:00
C8_Witness ==
    /\ last_op = "add_minute"
    /\ result = Some(TRUE)
    /\ month = Some(3)
    /\ day = Some(1)
    /\ hour = Some(0)

\* C8 as stated: the day fits the stored year, month and weekday in every
\* reachable state; set_month(2) after set_day(31) leaves 31 February
C8_DayWithinMonthAlways == DayWithinMonth

\* ------------------------------------------------------------------------
\* C9. In every state reachable through the setters and add_minute() a
\* present hour lies in 0..23; add_minute() at hour 23, minute 59 with a
\* change to summer time announced stores hour 25
\* ------------------------------------------------------------------------
C9_HourInRange == is_some(hour) => unwrap(hour) \in 0..23

\* ------------------------------------------------------------------------
\* C10. In every reachable state a present year lies in 0..99, a present
\* month in 1..12, a present minute in 0..59 and a present day is at least
\* 1; add_minute() wraps minute 59 to 0, month 12 to 1 and year 99 to 0.
\* ------------------------------------------------------------------------
C10_Ranges ==
    /\ is_some(year) => unwrap(year) \in 0..99
    /\ is_some(month) => unwrap(month) \in 1..12
    /\ is_some(minute) => unwrap(minute) \in 0..59
    /\ is_some(day) => unwrap(day) >= 1

C10_Wraps ==
    Added =>
        /\ minute = Some(59) => minute' = Some(0)
        /\ minute # Some(59) => minute' = Some(unwrap(minute) + 1)
        /\ month = Some(12) /\ month' # month => month' = Some(1)
        /\ year = Some(99) /\ year' # year => year' = Some(0)

C10_RangesKeptByWraps == [](C10_Ranges) /\ [][C10_Wraps]_vars

\* add_minute() went from 31 December 99 23:59 to 1 January 0 00:00
C10_Witness ==
    /\ last_op = "add_minute"
    /\ result = Some(TRUE)
    /\ year = Some(0)
    /\ month = Some(1)
    /\ day = Some(1)
    /\ minute = Some(0)

\* ------------------------------------------------------------------------
\* Spec: every operation of the type.  The setters are offered an absent
\* value and a mid-hour date and time (hour and minute also refused and
\* jump-checked, the hour with a second value), set_dst() and set_leap_second() absent and
\* present arguments without announcements, bump_minutes_running() counts
\* up to MaxCount and add_minute() advances the minute.
\* ------------------------------------------------------------------------
OptionBool == {None, Some(FALSE), Some(TRUE)}

MinuteLengths == {59, 60, 61}

AnyYears == {None, Some(20)}

AnyMonths == {None, Some(6)}

AnyWeekdays == {None, Some(2)}

AnyDays == {None, Some(15)}

AnyHours == {None, Some(10), Some(11)}

AnyMinutes == {None, Some(5)}

AnySetYear ==
    \E value \in AnyYears :
        set_year(value, TRUE, FALSE) /\ Seen("set_year")

AnySetMonth ==
    \E value \in AnyMonths :
        set_month(value, TRUE, FALSE) /\ Seen("set_month")

AnySetWeekday ==
    \E value \in AnyWeekdays :
        set_weekday(value, TRUE, FALSE) /\ Seen("set_weekday")

AnySetDay ==
    \E value \in AnyDays :
        set_day(value, TRUE, FALSE) /\ Seen("set_day")

AnySetHour ==
    \E value \in AnyHours, valid \in BOOLEAN, check_jump \in BOOLEAN :
        set_hour(value, valid, check_jump) /\ Seen("set_hour")

AnySetMinute ==
    \E value \in AnyMinutes, valid \in BOOLEAN, check_jump \in BOOLEAN :
        set_minute(value, valid, check_jump) /\ Seen("set_minute")

AnySetDst ==
    \E value \in OptionBool, announce \in {None, Some(FALSE)} :
        set_dst(value, announce, TRUE) /\ Seen("set_dst")

AnySetLeapSecond ==
    \E announce \in {None, Some(FALSE)}, minute_length \in MinuteLengths :
        set_leap_second(announce, minute_length) /\ Seen("set_leap_second")

BumpMinutesRunning ==
    /\ minutes_running < MaxCount
    /\ bump_minutes_running
    /\ Seen("bump_minutes_running")

Next ==
    \/ AnySetYear
    \/ AnySetMonth
    \/ AnySetWeekday
    \/ AnySetDay
    \/ AnySetHour
    \/ AnySetMinute
    \/ AnySetDst
    \/ AnySetLeapSecond
    \/ BumpMinutesRunning
    \/ ClearJumps
    \/ AddMinute

Spec == Init /\ [][Next]_vars

\* ------------------------------------------------------------------------
\* C1. Over any sequence of operations (the six setters, add_minute(),
\* set_dst(), set_leap_second(), bump_minutes_running(), clear_jumps()),
\* once year, month, day, weekday, hour, minute, dst or leap_second is
\* present it never becomes absent again.
\* ------------------------------------------------------------------------
C1_StaysPresent ==
    /\ is_some(year) => is_some(year')
    /\ is_some(month) => is_some(month')
    /\ is_some(day) => is_some(day')
    /\ is_some(weekday) => is_some(weekday')
    /\ is_some(hour) => is_some(hour')
    /\ is_some(minute) => is_some(minute')
    /\ is_some(dst) => is_some(dst')
    /\ is_some(leap_second) => is_some(leap_second')

C1_PresentNeverBecomesAbsent == [][C1_StaysPresent]_vars

\* all eight are present and the last call, set_minute(), was refused or
\* given an absent value: the minute that add_minute() produced is kept
C1_Witness ==
    /\ is_valid
    /\ is_some(leap_second)
    /\ last_op = "set_minute"
    /\ minute = Some(6)

\* ------------------------------------------------------------------------
\* C6. A call of one of the six setters changes at most its own field and
\* its own jump flag: the other five fields, the other five jump flags, dst,
\* leap_second, minutes_running, dst_count, leap_second_count, first_minute
\* and the weekday bounds are unchanged.
\* ------------------------------------------------------------------------
C6_Frame ==
    /\ last_op' \in SetterOps => UNCHANGED <<weekday_bounds, masks, counters>>
    /\ last_op' \in SetterOps \ {"set_year"} => UNCHANGED <<year, jump_year>>
    /\ last_op' \in SetterOps \ {"set_month"} => UNCHANGED <<month, jump_month>>
    /\ last_op' \in SetterOps \ {"set_day"} => UNCHANGED <<day, jump_day>>
    /\ last_op' \in SetterOps \ {"set_weekday"} =>
           UNCHANGED <<weekday, jump_weekday>>
    /\ last_op' \in SetterOps \ {"set_hour"} => UNCHANGED <<hour, jump_hour>>
    /\ last_op' \in SetterOps \ {"set_minute"} =>
           UNCHANGED <<minute, jump_minute>>

C6_SetterTouchesOnlyItsField == [][C6_Frame]_vars

\* set_year() stored a value while the hour's jump flag was up, dst and
\* leap_second were present and minutes had been counted: all are still so
C6_Witness ==
    /\ last_op = "set_year"
    /\ year = Some(20)
    /\ jump_hour
    /\ is_some(dst)
    /\ is_some(leap_second)
    /\ minutes_running > 0
    /\ ~first_minute

\* ------------------------------------------------------------------------
\* SpecJumps: the jump flags against the history of calls.  Year, day and
\* minute are offered two values, so that a present value can be replaced,
\* month, weekday and hour one; every call is valid or not, jump-checked or
\* not.  The caller notes, per field,
\*   call_jumped:     whether the most recent call of the field's setter,
\*                    stored or refused, replaced a present value by a
\*                    different one with check_jump, and clear_jumps() has
\*                    not been called since;
\*   accepted_jumped: the same for the most recent call that stored its
\*                    value, whatever was called since.
\* ------------------------------------------------------------------------
JumpYears == {None, Some(20), Some(21)}

JumpMonths == {None, Some(6)}

JumpDays == {None, Some(15), Some(16)}

JumpWeekdays == {None, Some(2)}

JumpHours == {None, Some(10)}

JumpMinutes == {None, Some(5), Some(6)}

\* the caller's note of a setter call: value, valid and check_jump are what
\* was passed, before and after the field's content around the call
Noted(op, field, value, valid, check_jump, before, after) ==
    LET replaced == check_jump /\ is_some(before) /\ after # before
        was_stored == valid /\ is_some(value) /\ after = value
    IN  /\ last_op' = op
        /\ call_jumped' = [call_jumped EXCEPT ![field] = replaced]
        /\ accepted_jumped' =
               (IF was_stored THEN [accepted_jumped EXCEPT ![field] = replaced]
                              ELSE accepted_jumped)
        /\ last_args' = <<>>
        /\ UNCHANGED <<second, sunday, minutes_added>>

JumpSetYear ==
    \E value \in JumpYears, valid \in BOOLEAN, check_jump \in BOOLEAN :
        /\ set_year(value, valid, check_jump)
        /\ Noted("set_year", "year", value, valid, check_jump, year, year')

JumpSetMonth ==
    \E value \in JumpMonths, valid \in BOOLEAN, check_jump \in BOOLEAN :
        /\ set_month(value, valid, check_jump)
        /\ Noted("set_month", "month", value, valid, check_jump, month, month')

JumpSetWeekday ==
    \E value \in JumpWeekdays, valid \in BOOLEAN, check_jump \in BOOLEAN :
        /\ set_weekday(value, valid, check_jump)
        /\ Noted("set_weekday", "weekday", value, valid, check_jump,
                 weekday, weekday')

JumpSetDay ==
    \E value \in JumpDays, valid \in BOOLEAN, check_jump \in BOOLEAN :
        /\ set_day(value, valid, check_jump)
        /\ Noted("set_day", "day", value, valid, check_jump, day, day')

JumpSetHour ==
    \E value \in JumpHours, valid \in BOOLEAN, check_jump \in BOOLEAN :
        /\ set_hour(value, valid, check_jump)
        /\ Noted("set_hour", "hour", value, valid, check_jump, hour, hour')

JumpSetMinute ==
    \E value \in JumpMinutes, valid \in BOOLEAN, check_jump \in BOOLEAN :
        /\ set_minute(value, valid, check_jump)
        /\ Noted("set_minute", "minute", value, valid, check_jump, minute, minute')

JumpClearJumps ==
    /\ clear_jumps
    /\ last_op' = "clear_jumps"
    /\ call_jumped' = [f \in Fields |-> FALSE]
    /\ last_args' = <<>>
    /\ UNCHANGED <<second, sunday, minutes_added, accepted_jumped>>

NextJumps ==
    \/ JumpSetYear
    \/ JumpSetMonth
    \/ JumpSetWeekday
    \/ JumpSetDay
    \/ JumpSetHour
    \/ JumpSetMinute
    \/ JumpClearJumps

SpecJumps == Init /\ [][NextJumps]_vars

\* the six flags as the getters get_jump_year() .. get_jump_minute() return
\* them
get_jump ==
    [f \in Fields |->
        CASE f = "year" -> jump_year
          [] f = "month" -> jump_month
          [] f = "day" -> jump_day
          [] f = "weekday" -> jump_weekday
          [] f = "hour" -> jump_hour
          [] f = "minute" -> jump_minute]

\* ------------------------------------------------------------------------
\* C5. In every reachable state each field's jump flag is true exactly when
\* the most recent call of that field's setter, whether it stored its value
\* or refused it, replaced a present value by a different one while
\* check_jump was requested, and clear_jumps() has not been called since.
\* ------------------------------------------------------------------------
C5_FlagTellsLastCall == \A f \in Fields : get_jump[f] = call_jumped[f]

\* set_minute() had raised the flag by storing a jump-checked change; the
\* next call of set_minute() was refused and lowered it
C5_Witness ==
    /\ last_op = "set_minute"
    /\ accepted_jumped["minute"]
    /\ ~call_jumped["minute"]
    /\ ~jump_minute
    /\ is_some(minute)

\* C5 as stated: the flag tells whether the most recent accepted update was
\* a jump-checked change; a refused call or clear_jumps() after it lowers
\* the flag
C5_FlagTellsLastAcceptedUpdate ==
    \A f \in Fields : get_jump[f] = accepted_jumped[f]

\* ------------------------------------------------------------------------
\* Claims about add_minute(), checked under SpecClock (C11, C13, C14) and
\* under Spec (C12)
\* ------------------------------------------------------------------------
\* everything the instance holds
instance == <<clock, jumps, weekday_bounds, masks, counters>>

\* ------------------------------------------------------------------------
\* C11. The value add_minute() returns is true exactly when year, month,
\* day, weekday, hour, minute and dst are all present (leap_second is not
\* required); when it returns false no field, flag or counter of the
\* instance is changed.  (A call that aborts on the u8 hour returns no
\* value: that is the subject of C39.)
\* ------------------------------------------------------------------------
C11_AllPresent ==
    /\ is_some(year)
    /\ is_some(month)
    /\ is_some(day)
    /\ is_some(weekday)
    /\ is_some(hour)
    /\ is_some(minute)
    /\ is_some(dst)

C11_Step ==
    last_op' = "add_minute" =>
        /\ ~panicked' => result' = Some(C11_AllPresent)
        /\ result' = Some(FALSE) => UNCHANGED instance

C13_Advance(mask) ==
    IF ~HasBit(mask, DST_ANNOUNCED) THEN 1
    ELSE IF ~HasBit(mask, DST_SUMMER) THEN 2 ELSE 0

\* the pre-adjustment followed by the unconditional +1, for every hour and
\* every mask
C13_Adjustment ==
    \A h \in 0..23, mask \in 0..15 :
        pre_adjusted_hour(h, mask) + 1 = h + C13_Advance(mask)

C13_Step ==
    Added /\ minute = Some(59) /\ unwrap(hour) \in 0..23 =>
        LET target == unwrap(hour) + C13_Advance(unwrap(dst))
        IN  /\ minute' = Some(0)
            /\ hour' = Some(IF target = 24 THEN 0 ELSE target)
            /\ (target = 24) <=> (day' # day)

C14_Step ==
    Added =>
        /\ /\ year = Some(99) /\ month = Some(12) /\ day = Some(31)
           /\ hour = Some(23) /\ minute = Some(59)
           /\ ~HasBit(unwrap(dst), DST_ANNOUNCED)
           => /\ year' = Some(0) /\ month' = Some(1) /\ day' = Some(1)
              /\ hour' = Some(0) /\ minute' = Some(0)
        /\ day' # day =>
              /\ weekday' = Some(IF unwrap(weekday) = max_weekday
                                 THEN min_weekday ELSE unwrap(weekday) + 1)
              /\ sunday = 7 /\ weekday = Some(7) => weekday' = Some(1)
              /\ sunday = 0 /\ weekday = Some(6) => weekday' = Some(0)
        /\ day' = day => weekday' = weekday

C14_CenturyFlipAndWeekdayWrap == [][C14_Step]_vars

\* an instance built with sunday = 7 went from Sunday 31 December 99 23:59
\* to Monday 1 January 0 00:00
C14_Witness ==
    /\ sunday = 7
    /\ last_op = "add_minute"
    /\ result = Some(TRUE)
    /\ year = Some(0) /\ month = Some(1) /\ day = Some(1)
    /\ hour = Some(0) /\ minute = Some(0)
    /\ weekday = Some(1)

\* ------------------------------------------------------------------------
\* C12. A successful add_minute() leaves dst, leap_second, all six jump
\* flags, minutes_running, dst_count, leap_second_count and first_minute
\* unchanged and changes only the clock fields; when the stored minute is
\* below 59 it changes only minute, by +1.
\* ------------------------------------------------------------------------
C12_Step ==
    Added =>
        /\ UNCHANGED <<jumps, weekday_bounds, masks, counters>>
        /\ unwrap(minute) < 59 =>
              /\ minute' = Some(unwrap(minute) + 1)
              /\ UNCHANGED <<year, month, day, weekday, hour>>

C12_AddMinuteChangesOnlyTheClock == [][C12_Step]_vars

\* add_minute() went from minute 5 to 6 while the hour's jump flag was up,
\* dst and leap_second were present and minutes had been counted
C12_Witness ==
    /\ last_op = "add_minute"
    /\ result = Some(TRUE)
    /\ minute = Some(6)
    /\ jump_hour
    /\ is_some(leap_second)
    /\ minutes_running > 0
    /\ ~first_minute

\* ------------------------------------------------------------------------
\* SpecCalendar: last_day() and is_leap_century().  set_year(), set_month()
\* and set_weekday() store the years around a multiple of four and around
\* the century, every month and every weekday (or are refused), last_day()
\* is called with every day 0..32 and is_leap_century() with every day and
\* weekday.
\* ------------------------------------------------------------------------
CalendarYears == {None} \cup {Some(y) : y \in {0, 1, 2, 3, 4, 20, 99, 100}}

CalendarMonths == {None} \cup {Some(m) : m \in 0..13}

CalendarWeekdays == {None} \cup {Some(w) : w \in 0..8}

CalendarDays == 0..32

CalendarSetYear ==
    \E value \in CalendarYears :
        set_year(value, TRUE, FALSE) /\ Seen("set_year")

CalendarSetMonth ==
    \E value \in CalendarMonths :
        set_month(value, TRUE, FALSE) /\ Seen("set_month")

CalendarSetWeekday ==
    \E value \in CalendarWeekdays :
        set_weekday(value, TRUE, FALSE) /\ Seen("set_weekday")

LastDay ==
    \E d \in CalendarDays : call_last_day(d) /\ Seen("last_day")

IsLeapCentury ==
    \E d \in 1..31, wday \in 0..7 :
        call_is_leap_century(d, wday) /\ Seen("is_leap_century")

NextCalendar ==
    \/ CalendarSetYear
    \/ CalendarSetMonth
    \/ CalendarSetWeekday
    \/ LastDay
    \/ IsLeapCentury

SpecCalendar == Init /\ [][NextCalendar]_vars

\* ------------------------------------------------------------------------
\* C15. last_day() returns 30 for months 4, 6, 9 and 11, 31 for months 1,
\* 3, 5, 7, 8, 10 and 12, and for month 2 returns 29 when year != 0 and
\* year % 4 = 0 whatever the weekday and day, 28 when year % 4 != 0, and for
\* year 0 29 or 28 as is_leap_century(day, weekday) tells; it returns None
\* when year, month or weekday is absent or the day argument is outside
\* 1..31.
\* ------------------------------------------------------------------------
C15_Expected(d) ==
    IF is_none(year) \/ is_none(month) \/ is_none(weekday) \/ d < 1 \/ d > 31
    THEN None
    ELSE LET y == unwrap(year)
             m == unwrap(month)
         IN  CASE m \in {4, 6, 9, 11} -> Some(30)
               [] m \in {1, 3, 5, 7, 8, 10, 12} -> Some(31)
               [] m = 2 /\ y # 0 /\ y % 4 = 0 -> Some(29)
               [] m = 2 /\ y % 4 # 0 -> Some(28)
               [] m = 2 /\ y = 0 ->
                     IF is_leap_century(d, unwrap(weekday)) THEN Some(29)
                                                            ELSE Some(28)

C15_Table == \A d \in CalendarDays : last_day(d) = C15_Expected(d)

C15_Step ==
    last_op' = "last_day" =>
        \E d \in CalendarDays : result' = C15_Expected(d)

C16_WeekdayOfFeb28(d, wday) ==
    LET wd == IF wday = 0 THEN 7 ELSE wday
    IN  (((wd - 1) + (28 - d)) % 7) + 1

\* the rule for every day and the weekday the instance holds
C16_MondayRule ==
    is_some(weekday) =>
        \A d \in 1..31 :
            LET wday == unwrap(weekday)
            IN  /\ is_leap_century(d, wday) =
                       (IF d < 29 THEN C16_WeekdayOfFeb28(d, wday) = 1
                                  ELSE wday = 2)
                /\ wday = 0 => is_leap_century(d, 0) = is_leap_century(d, 7)

\* ------------------------------------------------------------------------
\* SpecDst: the decoder of one station feeds set_minute(), set_dst(),
\* set_leap_second() and bump_minutes_running() in any order, at the hour
\* and within it, and keeps the arguments of its mask calls
\* ------------------------------------------------------------------------
DstMinutes == {Some(0), Some(5)}

DstLengths == {60, 61}

InitDst == Init /\ sunday = 7

DstSetMinute ==
    \E value \in DstMinutes :
        set_minute(value, TRUE, FALSE) /\ Seen("set_minute")

DstSetDst ==
    \E value \in BOOLEAN, announce \in BOOLEAN, check_jump \in BOOLEAN :
        /\ announce => dst_count < MaxCount
        /\ set_dst(Some(value), Some(announce), check_jump)
        /\ SeenCall("set_dst", <<value, announce, check_jump>>)

DstSetLeapSecond ==
    \E announce \in BOOLEAN, minute_length \in DstLengths :
        /\ announce => leap_second_count < MaxCount
        /\ set_leap_second(Some(announce), minute_length)
        /\ SeenCall("set_leap_second", <<announce, minute_length>>)

DstBumpMinutesRunning ==
    /\ minutes_running < MaxCount
    /\ bump_minutes_running
    /\ Seen("bump_minutes_running")

NextDst ==
    \/ DstSetMinute
    \/ DstSetDst
    \/ DstSetLeapSecond
    \/ DstBumpMinutesRunning

SpecDst == InitDst /\ [][NextDst]_vars

\* the DST_SUMMER bit of a mask that may be absent (set_dst() starts an
\* absent mask at 0)
summer(mask) == is_some(mask) /\ HasBit(unwrap(mask), DST_SUMMER)

\* the DST_ANNOUNCED / LEAP_ANNOUNCED bit of a mask that may be absent
announced(mask) == is_some(mask) /\ HasBit(unwrap(mask), DST_ANNOUNCED)

\* the DST_PROCESSED / LEAP_PROCESSED bit of a mask that may be absent
processed(mask) == is_some(mask) /\ HasBit(unwrap(mask), DST_PROCESSED)

\* ------------------------------------------------------------------------
\* C17. In set_dst() with both inputs present and a value that differs from
\* the stored DST_SUMMER bit: on the first such call ever the value is
\* accepted whatever the announcement state and DST_SUMMER is updated to it;
\* on a later call with the stored minute 0 it is accepted exactly when
\* DST_ANNOUNCED is set, and DST_SUMMER keeps its value when it is not.
\* ------------------------------------------------------------------------
C17_Step ==
    (last_op' = "set_dst" /\ last_args'[1] # summer(dst)) =>
        /\ first_minute => summer(dst') = last_args'[1]
        /\ (~first_minute /\ minute = Some(0)) =>
               ((summer(dst') = last_args'[1]) <=> announced(dst))

C17_FirstCallOrAnnouncedHour == [][C17_Step]_vars

\* the first call brought summer time without an announcement, before any
\* minute was stored
C17_Witness ==
    /\ last_op = "set_dst"
    /\ last_args = <<TRUE, FALSE, FALSE>>
    /\ is_none(minute)
    /\ dst = Some(DST_SUMMER)

\* C17 as stated: on the first call, or whenever the stored minute is 0, a
\* differing value is accepted whatever the announcement state
C17_StepAtAnyHour ==
    (/\ last_op' = "set_dst"
     /\ last_args'[1] # summer(dst)
     /\ (first_minute \/ minute = Some(0))) =>
        summer(dst') = last_args'[1]

C17_AcceptedAtFirstCallOrAnyHour == [][C17_StepAtAnyHour]_vars

\* ------------------------------------------------------------------------
\* C18. After the first effective set_dst() call, DST_SUMMER changes during
\* a set_dst() call only if DST_ANNOUNCED is set and the stored minute is 0;
\* a differing value passed without that condition and with check_jump
\* false leaves DST_SUMMER as it was and DST_JUMP clear.
\* ------------------------------------------------------------------------
C18_Step ==
    (last_op' = "set_dst" /\ ~first_minute) =>
        /\ summer(dst') # summer(dst) =>
               (announced(dst) /\ minute = Some(0))
        /\ (/\ last_args'[1] # summer(dst)
            /\ ~(announced(dst) /\ minute = Some(0))
            /\ ~last_args'[3]) =>
               /\ summer(dst') = summer(dst)
               /\ ~HasBit(unwrap(dst'), DST_JUMP)

C18_SummerChangesOnlyWhenAnnouncedAtHour == [][C18_Step]_vars

\* summer time was passed within the hour, unannounced and unchecked, and
\* the mask still says winter without a flag
C18_Witness ==
    /\ last_op = "set_dst"
    /\ last_args = <<TRUE, FALSE, FALSE>>
    /\ minute = Some(5)
    /\ dst = Some(0)

\* ------------------------------------------------------------------------
\* C19. In set_dst() and in set_leap_second() the announcement counter is
\* increased by one exactly on calls with announce == true (at minute 0 the
\* same call then resets it, so the increase shows in the counter the call
\* leaves whenever the stored minute is not 0), and when the stored minute
\* is present and greater than 0 the ANNOUNCED bit after the call is set
\* exactly when 2 * counter > minutes_running.
\* ------------------------------------------------------------------------
C19_Counted(count, announce) == IF announce THEN count + 1 ELSE count

C19_Step ==
    /\ last_op' = "set_dst" =>
           /\ minute # Some(0) =>
                  dst_count' = C19_Counted(dst_count, last_args'[2])
           /\ (is_some(minute) /\ unwrap(minute) > 0) =>
                  (announced(dst') <=> 2 * dst_count' > minutes_running)
    /\ last_op' = "set_leap_second" =>
           /\ minute # Some(0) =>
                  leap_second_count' =
                      C19_Counted(leap_second_count, last_args'[1])
           /\ (is_some(minute) /\ unwrap(minute) > 0) =>
                  (announced(leap_second') <=>
                       2 * leap_second_count' > minutes_running)

C20_Step ==
    /\ last_op' = "set_dst" =>
           (processed(dst') <=> (minute = Some(0) /\ announced(dst)))
    /\ last_op' = "set_leap_second" =>
           /\ processed(leap_second') <=>
                  (minute = Some(0) /\ announced(leap_second))
           /\ ~processed(leap_second') =>
                  ~HasBit(unwrap(leap_second'), LEAP_MISSING)

C21_Step ==
    /\ (last_op' = "set_dst" /\ minute = Some(0)) =>
           (~announced(dst') /\ dst_count' = 0)
    /\ (last_op' = "set_leap_second" /\ minute = Some(0)) =>
           (~announced(leap_second') /\ leap_second_count' = 0)

C21_AnnouncementResetAtHour == [][C21_Step]_vars

\* a call at the hour that announced a change itself and found the earlier
\* announcement standing: the change is processed, the evidence is gone
C21_Witness ==
    /\ last_op = "set_dst"
    /\ last_args[2]
    /\ minute = Some(0)
    /\ processed(dst)
    /\ ~announced(dst)
    /\ dst_count = 0

\* ------------------------------------------------------------------------
\* SpecFed: a decoder that starts at the top of an hour and, once per
\* minute, advances the minute, bumps minutes_running and calls set_dst():
\* with an announcement in every minute within the hour, with or without
\* one at the next top of the hour, to which it may skip from any minute
\* ------------------------------------------------------------------------
MaxFed == 5

\* the minute the decoder stores next
FedMinutes ==
    IF is_none(minute) THEN {0}
    ELSE IF minute = Some(0) THEN {1}
    ELSE {0} \cup {m \in {unwrap(minute) + 1} : m <= MaxFed}

\* the first top of the hour may pass without a set_dst() call
FedSetMinute ==
    /\ \/ last_op \in {"new", "set_dst"}
       \/ last_op = "bump_minutes_running" /\ minute = Some(0) /\ first_minute
    /\ \E m \in FedMinutes :
           set_minute(Some(m), TRUE, FALSE) /\ Seen("set_minute")

FedBumpMinutesRunning ==
    /\ last_op = "set_minute"
    /\ bump_minutes_running
    /\ Seen("bump_minutes_running")

FedSetDst ==
    /\ last_op = "bump_minutes_running"
    /\ \E value \in BOOLEAN, check_jump \in BOOLEAN,
          announce \in (IF minute = Some(0) THEN BOOLEAN ELSE {TRUE}) :
           /\ set_dst(Some(value), Some(announce), check_jump)
           /\ SeenCall("set_dst", <<value, announce, check_jump>>)

NextFed ==
    \/ FedSetMinute
    \/ FedBumpMinutesRunning
    \/ FedSetDst

SpecFed == InitDst /\ [][NextFed]_vars

\* ------------------------------------------------------------------------
\* C22. Starting from the top of an hour and advancing minute and
\* minutes_running once per minute, the N-th consecutive set_dst() call with
\* announce = true leaves dst_count = N = minutes_running, so 2N >
\* minutes_running and DST_ANNOUNCED is set from the first of them on; a
\* following set_dst() call at minute 0 with a changed value then leaves the
\* mask equal to DST_PROCESSED plus the new DST_SUMMER value, with
\* DST_ANNOUNCED clear and dst_count 0.
\* ------------------------------------------------------------------------
C22_Step ==
    last_op' = "set_dst" =>
        /\ minute # Some(0) =>
               /\ dst_count' = unwrap(minute)
               /\ minutes_running = unwrap(minute)
               /\ 2 * dst_count' > minutes_running
               /\ announced(dst')
        /\ (minute = Some(0) /\ dst_count >= 1
                /\ last_args'[1] # summer(dst)) =>
               /\ dst' = Some(DST_PROCESSED +
                              (IF last_args'[1] THEN DST_SUMMER ELSE 0))
               /\ dst_count' = 0

C22_DebouncedTransition == [][C22_Step]_vars

\* summer time arrived at the top of the hour after announced minutes
C22_Witness ==
    /\ last_op = "set_dst"
    /\ last_args = <<TRUE, FALSE, TRUE>>
    /\ minute = Some(0)
    /\ minutes_running = 0
    /\ dst = Some(DST_PROCESSED + DST_SUMMER)
    /\ dst_count = 0

\* ------------------------------------------------------------------------
\* SpecOptional: the calls of SpecDst with inputs that may be absent and
\* minute lengths that may be out of range
\* ------------------------------------------------------------------------
OptionalLengths == {59, 60, 61, 62}

OptionalSetMinute ==
    \E value \in DstMinutes :
        set_minute(value, TRUE, FALSE) /\ Seen("set_minute")

OptionalSetDst ==
    \E value \in OptionBool, announce \in OptionBool, check_jump \in BOOLEAN :
        /\ announce = Some(TRUE) => dst_count < MaxCount
        /\ set_dst(value, announce, check_jump)
        /\ SeenCall("set_dst", <<value, announce, check_jump>>)

OptionalSetLeapSecond ==
    \E announce \in OptionBool, minute_length \in OptionalLengths :
        /\ announce = Some(TRUE) => leap_second_count < MaxCount
        /\ set_leap_second(announce, minute_length)
        /\ SeenCall("set_leap_second", <<announce, minute_length>>)

OptionalBumpMinutesRunning ==
    /\ minutes_running < MaxCount
    /\ bump_minutes_running
    /\ Seen("bump_minutes_running")

NextOptional ==
    \/ OptionalSetMinute
    \/ OptionalSetDst
    \/ OptionalSetLeapSecond
    \/ OptionalBumpMinutesRunning

SpecOptional == InitDst /\ [][NextOptional]_vars

\* ------------------------------------------------------------------------
\* C23. set_dst() changes nothing at all (mask, dst_count, first_minute and
\* every other field) when value or announce is absent; set_leap_second()
\* changes nothing at all when announce is absent or minute_length is not
\* 60 or 61.
\* ------------------------------------------------------------------------
C23_Step ==
    /\ (/\ last_op' = "set_dst"
        /\ (is_none(last_args'[1]) \/ is_none(last_args'[2]))) =>
           UNCHANGED <<instance, outcome>>
    /\ (/\ last_op' = "set_leap_second"
        /\ (is_none(last_args'[1]) \/ last_args'[2] \notin {60, 61})) =>
           UNCHANGED <<instance, outcome>>

C23_IgnoredCallsChangeNothing == [][C23_Step]_vars

\* a call without an announcement input met a mask with a jump flag and a
\* running count
C23_Witness ==
    /\ last_op = "set_dst"
    /\ last_args[1] = Some(TRUE)
    /\ last_args[2] = None
    /\ is_some(dst)
    /\ HasBit(unwrap(dst), DST_JUMP)
    /\ dst_count = 1

\* ------------------------------------------------------------------------
\* C24. After set_leap_second() is called with its inputs present, the
\* stored minute 0 and LEAP_ANNOUNCED set, the mask is
\* LEAP_PROCESSED | LEAP_MISSING when minute_length is 60 and LEAP_PROCESSED
\* alone when it is 61; the next call, made with a stored minute greater
\* than 0 and announce == false, returns the mask to 0.
\* ------------------------------------------------------------------------
C24_Step ==
    last_op' = "set_leap_second" =>
        /\ (minute = Some(0) /\ announced(leap_second)) =>
               leap_second' =
                   Some(IF last_args'[2] = 60
                        THEN LEAP_PROCESSED + LEAP_MISSING
                        ELSE LEAP_PROCESSED)
        /\ (/\ processed(leap_second)
            /\ is_some(minute) /\ unwrap(minute) > 0
            /\ ~last_args'[1]) =>
               leap_second' = Some(0)

C24_LeapSecondProcessedThenCleared == [][C24_Step]_vars

\* the announced leap second did not come: the minute had 60 seconds
C24_Witness ==
    /\ last_op = "set_leap_second"
    /\ last_args = <<FALSE, 60>>
    /\ minute = Some(0)
    /\ leap_second = Some(LEAP_PROCESSED + LEAP_MISSING)

\* ------------------------------------------------------------------------
\* C25. bump_minutes_running() increases minutes_running by exactly one,
\* except that when the stored minute is 0 it leaves minutes_running at 0;
\* it changes no other field, mask or counter.
\* ------------------------------------------------------------------------
C25_Step ==
    last_op' = "bump_minutes_running" =>
        /\ minutes_running' =
               (IF minute = Some(0) THEN 0 ELSE minutes_running + 1)
        /\ UNCHANGED <<clock, jumps, weekday_bounds, masks>>
        /\ UNCHANGED <<dst_count, first_minute, leap_second_count>>

C25_BumpCountsMinutesOfTheHour == [][C25_Step]_vars

\* the second minute counted within an hour, with both masks and both
\* announcement counters in use
C25_Witness ==
    /\ last_op = "bump_minutes_running"
    /\ minute = Some(5)
    /\ minutes_running = 2
    /\ dst_count = 1
    /\ leap_second_count = 1
    /\ announced(dst)
    /\ is_some(leap_second)

\* ------------------------------------------------------------------------
\* radio_datetime_helpers.rs: u32 arithmetic
\*
\* A u32 is kept as <<high, low>>, two 16-bit halves with value
\* high * 2^16 + low.  The raw result of an addition or subtraction has its
\* low half in 0 .. 2^16 - 1 and carries the rest in the high half, which
\* leaves 0 .. 2^16 - 1 exactly when the u32 operation overflows.
\* ------------------------------------------------------------------------
HALF == 65536

U32_MAX == <<HALF - 1, HALF - 1>>

U32_ZERO == <<0, 0>>

U32_ONE == <<0, 1>>

CarryU32(high, low) == <<high + (low \div HALF), low % HALF>>

AddU32(a, b) == CarryU32(a[1] + b[1], a[2] + b[2])

SubU32(a, b) == CarryU32(a[1] - b[1], a[2] - b[2])

\* a >= b
GeU32(a, b) == a[1] > b[1] \/ (a[1] = b[1] /\ a[2] >= b[2])

\* the operation leaves the u32 range: panics when overflow checks are on
OverflowsU32(x) == x[1] < 0 \/ x[1] >= HALF

\* the value a u32 holds after an unchecked (wrapping) operation
WrapU32(x) == <<x[1] % HALF, x[2]>>

\* ------------------------------------------------------------------------
\* time_diff(t0, t1)
\* ------------------------------------------------------------------------
\* the raw results of the operations the call executes, in order
time_diff_operations(t0, t1) ==
    IF GeU32(t1, t0)
    THEN <<SubU32(t1, t0)>>
    ELSE IF t0 # U32_ZERO
         THEN LET rest == SubU32(U32_MAX, t0)
                  sum == AddU32(WrapU32(rest), t1)
                  next == AddU32(WrapU32(sum), U32_ONE)
              IN  <<rest, sum, next>>
         ELSE <<U32_ZERO>>

\* a wrapped difference that forgets the step from u32::MAX to 0
time_diff_from_max(t0, t1) ==
    LET operations == time_diff_operations(t0, t1)
    IN  WrapU32(operations[IF Len(operations) = 3 THEN 2 ELSE 1])

\* the value returned: that of the last operation
time_diff(t0, t1) ==
    LET operations == time_diff_operations(t0, t1)
    IN  WrapU32(operations[Len(operations)])

call_time_diff(t0, t1) ==
    LET operations == time_diff_operations(t0, t1)
        builds == IF \E k \in DOMAIN operations : OverflowsU32(operations[k])
                  THEN BOOLEAN ELSE {FALSE}
    IN  /\ ~panicked
        /\ UNCHANGED instance
        /\ \E aborts \in builds :
               IF aborts
               THEN panicked' = TRUE /\ result' = None
               ELSE result' = Some(time_diff(t0, t1)) /\ UNCHANGED panicked

\* ------------------------------------------------------------------------
\* SpecTimeDiff: time_diff() on timestamps around 0, around the middle and
\* around the end of the u32 range
\* ------------------------------------------------------------------------
Timestamps ==
    { <<0, 0>>, <<0, 1>>, <<0, 2>>, <<0, 3>>, <<0, 100>>, <<0, HALF - 1>>,
      <<1, 0>>, <<32767, HALF - 1>>, <<32768, 0>>,
      <<HALF - 1, HALF - 101>>, <<HALF - 1, HALF - 2>>, U32_MAX }

TimeDiff ==
    \E t0 \in Timestamps, t1 \in Timestamps :
        call_time_diff(t0, t1) /\ SeenCall("time_diff", <<t0, t1>>)

NextTimeDiff == TimeDiff

SpecTimeDiff == InitDst /\ [][NextTimeDiff]_vars

\* ------------------------------------------------------------------------
\* C26. For all 32-bit unsigned t0 and t1, time_diff(t0, t1) equals
\* (t1 - t0) mod 2^32, computed without any intermediate overflow; in
\* particular time_diff(x, x) = 0 for all x.
\* ------------------------------------------------------------------------
\* (t1 - t0) mod 2^32
C26_Distance(t0, t1) == WrapU32(SubU32(t1, t0))

C26_NoOverflow(t0, t1) ==
    LET operations == time_diff_operations(t0, t1)
    IN  \A k \in DOMAIN operations : ~OverflowsU32(operations[k])

C26_TimeDiffIsForwardDistance ==
    /\ ~panicked
    /\ last_op = "time_diff" =>
           /\ result = Some(C26_Distance(last_args[1], last_args[2]))
           /\ C26_NoOverflow(last_args[1], last_args[2])
           /\ last_args[1] = last_args[2] => result = Some(U32_ZERO)

\* the timer wrapped between the two timestamps: from u32::MAX - 100 to 100
C26_Witness ==
    /\ last_op = "time_diff"
    /\ last_args = <<(<<HALF - 1, HALF - 101>>), (<<0, 100>>)>>
    /\ result = Some(<<0, 201>>)

\* ------------------------------------------------------------------------
\* radio_datetime_helpers.rs: get_bcd_value(bit_buffer, start, stop)
\*
\* A bit buffer is a sequence of Option<bool>; position p of the slice is
\* element p + 1 of the sequence.  The loop index is kept as an integer:
\* the casts between isize and usize never abort, and the value usize::MAX
\* that the index and its test value take one step below 0 is written -1.
\* ------------------------------------------------------------------------
MAX_RANGE == 8

min_max(a, b) == IF a < b THEN <<a, b>> ELSE <<b, a>>

\* a loop that walks upwards whatever the order of start and stop
bcd_step_upwards(start, stop) == 1

\* "let step: isize = if start < stop { 1 } else { -1 }"
bcd_step(start, stop) == IF start < stop THEN 1 ELSE -1

\* a result that is returned whatever its size
bcd_result_unbounded(bcd) == Some(bcd)

\* "if bcd < 100 { Some(bcd) } else { None }"
bcd_result(bcd) == IF bcd < 100 THEN Some(bcd) ELSE None

\* the while loop, from the state it has before the test of idx; gives the
\* value returned and how the run went: "ok", "overflow" when a u8 operation
\* left its range on the way (a build with overflow checks aborts there),
\* "index" when idx is outside the slice (every build aborts)
RECURSIVE bcd_loop(_, _, _, _, _, _, _)
bcd_loop(bit_buffer, idx, stop, step, bcd, mult, run) ==
    IF idx = stop + step
    THEN <<bcd_result(bcd), run>>
    ELSE IF (idx + 1) \notin DOMAIN bit_buffer
    THEN <<None, "index">>
    ELSE LET bit == bit_buffer[idx + 1]
         IN  IF is_none(bit)
             THEN <<None, run>>
             ELSE LET term_raw == mult * (IF unwrap(bit) THEN 1 ELSE 0)
                      bcd_raw == bcd + WrapU8(term_raw)
                      mult_raw == mult * 2
                      bcd1 == WrapU8(bcd_raw)
                      mult1 == WrapU8(mult_raw)
                      run1 == IF \/ OverflowsU8(term_raw)
                                 \/ OverflowsU8(bcd_raw)
                                 \/ OverflowsU8(mult_raw)
                              THEN "overflow" ELSE run
                  IN  IF mult1 = 16
                      THEN IF bcd1 > 9
                           THEN <<None, run1>>
                           ELSE bcd_loop(bit_buffer, idx + step, stop, step,
                                         bcd1, 10, run1)
                      ELSE bcd_loop(bit_buffer, idx + step, stop, step,
                                    bcd1, mult1, run1)

\* the value returned and how the run went
get_bcd_value_run(bit_buffer, start, stop) ==
    LET p == min_max(start, stop)
    IN  IF p[2] - p[1] >= MAX_RANGE
        THEN <<None, "ok">>
        ELSE bcd_loop(bit_buffer, start, stop, bcd_step(start, stop), 0, 1, "ok")

get_bcd_value(bit_buffer, start, stop) ==
    get_bcd_value_run(bit_buffer, start, stop)[1]

call_get_bcd_value(bit_buffer, start, stop) ==
    LET run == get_bcd_value_run(bit_buffer, start, stop)
        builds == CASE run[2] = "ok" -> {FALSE}
                    [] run[2] = "overflow" -> BOOLEAN
                    [] run[2] = "index" -> {TRUE}
    IN  /\ ~panicked
        /\ UNCHANGED instance
        /\ \E aborts \in builds :
               IF aborts
               THEN panicked' = TRUE /\ result' = None
               ELSE result' = run[1] /\ UNCHANGED panicked

\* ------------------------------------------------------------------------
\* SpecBcd: get_bcd_value() on every span, forwards and backwards, of every
\* buffer of BufferLen bits of which at most one is unknown
\* ------------------------------------------------------------------------
BufferLen == 9

KnownBuffers == [1..BufferLen -> {Some(FALSE), Some(TRUE)}]

Buffers ==
    KnownBuffers \cup
        {[b EXCEPT ![k] = None] : b \in KnownBuffers, k \in 1..BufferLen}

Positions == 0..(BufferLen - 1)

\* the caller has a buffer and a span in hand
InitBcd ==
    /\ sunday = 7
    /\ new(sunday)
    /\ panicked = FALSE
    /\ result = None
    /\ last_op = "new"
    /\ minutes_added = 0
    /\ call_jumped = [f \in Fields |-> FALSE]
    /\ accepted_jumped = [f \in Fields |-> FALSE]
    /\ second = 0
    /\ last_args \in Buffers \X Positions \X Positions

GetBcdValue ==
    /\ last_op = "new"
    /\ call_get_bcd_value(last_args[1], last_args[2], last_args[3])
    /\ SeenCall("get_bcd_value", last_args)

NextBcd == GetBcdValue

SpecBcd == InitBcd /\ [][NextBcd]_vars

\* the bits of the span in the order from start to stop, as 0 and 1; an
\* unknown bit counts 0
bcd_span(bit_buffer, start, stop) ==
    LET width == (IF start <= stop THEN stop - start ELSE start - stop) + 1
        at(k) == IF start <= stop THEN start + k ELSE start - k
        bit(p) == IF bit_buffer[p + 1] = Some(TRUE) THEN 1 ELSE 0
    IN  [k \in 1..width |-> bit(at(k - 1))]

\* every bit of the span is known
bcd_known(bit_buffer, start, stop) ==
    LET p == min_max(start, stop)
    IN  \A q \in p[1]..p[2] : is_some(bit_buffer[q + 1])

\* the binary value (weights 1, 2, 4, 8) of the up to four bits that begin
\* at element first
BinaryValue(bits, first) ==
    LET bit(k) == IF k \in DOMAIN bits THEN bits[k] ELSE 0
    IN  bit(first) + 2 * bit(first + 1) + 4 * bit(first + 2)
            + 8 * bit(first + 3)

\* the packed BCD value of a sequence of bits, least significant first
BcdValue(bits, known) ==
    LET ones == BinaryValue(bits, 1)
        tens == BinaryValue(bits, 5)
    IN  IF Len(bits) <= 8 /\ known /\ ones <= 9 /\ ones + 10 * tens <= 99
        THEN Some(ones + 10 * tens)
        ELSE None

\* ------------------------------------------------------------------------
\* C27. For start <= stop, get_bcd_value() returns Some(ones + 10 * tens),
\* where ones is the binary value (weights 1, 2, 4, 8) of the first up to
\* four bits and tens that of the following bits, exactly when the
\* inclusive span is at most 8 bits wide, every bit in the span is known,
\* ones <= 9 and the total is at most 99; in every other case, including
\* any span with |start - stop| >= 8, it returns None.
\* ------------------------------------------------------------------------
C27_ForwardDecode ==
    (last_op = "get_bcd_value" /\ last_args[2] <= last_args[3]) =>
        /\ ~panicked
        /\ result = BcdValue(bcd_span(last_args[1], last_args[2], last_args[3]),
                             bcd_known(last_args[1], last_args[2], last_args[3]))

\* the bits 0, 1, 0, 0, 1 at the positions 0 to 4 are the digits 2 and 1
C27_Witness ==
    /\ last_op = "get_bcd_value"
    /\ last_args[2] = 0
    /\ last_args[3] = 4
    /\ SubSeq(last_args[1], 1, 5) =
           <<Some(FALSE), Some(TRUE), Some(FALSE), Some(FALSE), Some(TRUE)>>
    /\ result = Some(12)

\* ------------------------------------------------------------------------
\* C28. For start > stop, get_bcd_value(buffer, start, stop) equals the
\* forward decode of the same bits taken in reverse order, so the bit at
\* position start is always the least significant one; for a span whose
\* bits are not symmetric the forward and the backward result differ
\* whenever at least one of them is a value (both are None when a bit is
\* unknown, the span is too wide or both readings are invalid BCD).
\* ------------------------------------------------------------------------
Reverse(seq) == [k \in 1..Len(seq) |-> seq[Len(seq) + 1 - k]]

\* the bits of the inclusive span between two positions, lowest position
\* first, as they are in the buffer
C28_Span(bit_buffer, start, stop) ==
    LET p == min_max(start, stop)
    IN  [k \in 1..(p[2] - p[1] + 1) |-> bit_buffer[p[1] + k]]

C28_Asymmetric(bit_buffer, start, stop) ==
    C28_Span(bit_buffer, start, stop) # Reverse(C28_Span(bit_buffer, start, stop))

\* the result of reading the same span from its lowest position upwards
C28_Forward == get_bcd_value(last_args[1], last_args[3], last_args[2])

C28_ReversedOrder ==
    (last_op = "get_bcd_value" /\ last_args[2] > last_args[3]) =>
        /\ ~panicked
        /\ result = get_bcd_value(Reverse(last_args[1]),
                                  BufferLen - 1 - last_args[2],
                                  BufferLen - 1 - last_args[3])
        /\ result = BcdValue(bcd_span(last_args[1], last_args[2], last_args[3]),
                             bcd_known(last_args[1], last_args[2], last_args[3]))

C28_BackwardDecode ==
    /\ C28_ReversedOrder
    /\ (/\ last_op = "get_bcd_value" /\ last_args[2] > last_args[3]
        /\ C28_Asymmetric(last_args[1], last_args[2], last_args[3])
        /\ (is_some(result) \/ is_some(C28_Forward))) =>
           result # C28_Forward

\* the bits 0, 1, 0, 0, 1, 1 at the positions 0 to 5, read from 5 down to 0,
\* are the digits 3 and 1; read upwards they are not BCD
C28_Witness ==
    /\ last_op = "get_bcd_value"
    /\ last_args[2] = 5
    /\ last_args[3] = 0
    /\ SubSeq(last_args[1], 1, 6) =
           <<Some(FALSE), Some(TRUE), Some(FALSE), Some(FALSE), Some(TRUE),
             Some(TRUE)>>
    /\ result = Some(13)
    /\ C28_Forward # result

\* C28 as stated: the two results differ for every span that is not
\* symmetric
C28_AsymmetricSpansDiffer ==
    (/\ last_op = "get_bcd_value" /\ last_args[2] > last_args[3]
     /\ C28_Asymmetric(last_args[1], last_args[2], last_args[3])) =>
        result # C28_Forward

\* ------------------------------------------------------------------------
\* radio_datetime_helpers.rs: get_parity(bit_buffer, start, stop, parity)
\* ------------------------------------------------------------------------
\* a parity that only ever turns odd
parity_or(s_parity, bit) == s_parity \/ bit

\* "s_parity ^= bit.unwrap()"
parity_xor(s_parity, bit) == s_parity # bit

\* the for loop over bit_buffer[p0..=p1], from position p on
RECURSIVE parity_loop(_, _, _, _)
parity_loop(bit_buffer, p, p1, s_parity) ==
    IF p > p1
    THEN Some(s_parity)
    ELSE IF is_none(bit_buffer[p + 1])
         THEN None
         ELSE parity_loop(bit_buffer, p + 1, p1,
                          parity_xor(s_parity, unwrap(bit_buffer[p + 1])))

get_parity(bit_buffer, start, stop, parity) ==
    IF is_none(parity)
    THEN None
    ELSE LET p == min_max(start, stop)
         IN  parity_loop(bit_buffer, p[1], p[2], unwrap(parity))

\* a slice that ends outside the buffer aborts the call
call_get_parity(bit_buffer, start, stop, parity) ==
    LET p == min_max(start, stop)
        aborts == is_some(parity) /\ p[2] + 1 > Len(bit_buffer)
    IN  /\ ~panicked
        /\ UNCHANGED instance
        /\ IF aborts
           THEN panicked' = TRUE /\ result' = None
           ELSE /\ result' = get_parity(bit_buffer, start, stop, parity)
                /\ UNCHANGED panicked

\* ------------------------------------------------------------------------
\* SpecParity: get_parity() on every span, in both orders, of every buffer
\* of ParityLen bits of which at most one is unknown, with every seed
\* ------------------------------------------------------------------------
ParityLen == 5

KnownParityBuffers == [1..ParityLen -> {Some(FALSE), Some(TRUE)}]

ParityBuffers ==
    KnownParityBuffers \cup
        {[b EXCEPT ![k] = None] : b \in KnownParityBuffers, k \in 1..ParityLen}

ParityPositions == 0..(ParityLen - 1)

\* the caller has a buffer, a span and a parity bit in hand
InitParity ==
    /\ sunday = 7
    /\ new(sunday)
    /\ panicked = FALSE
    /\ result = None
    /\ last_op = "new"
    /\ minutes_added = 0
    /\ call_jumped = [f \in Fields |-> FALSE]
    /\ accepted_jumped = [f \in Fields |-> FALSE]
    /\ second = 0
    /\ last_args \in
           ParityBuffers \X ParityPositions \X ParityPositions \X OptionBool

GetParity ==
    /\ last_op = "new"
    /\ call_get_parity(last_args[1], last_args[2], last_args[3], last_args[4])
    /\ SeenCall("get_parity", last_args)

NextParity == GetParity

SpecParity == InitParity /\ [][NextParity]_vars

\* ------------------------------------------------------------------------
\* C29. get_parity(buffer, start, stop, parity) returns None when parity is
\* None or any bit in the inclusive span between min(start, stop) and
\* max(start, stop) is None; otherwise it returns Some(p) where p is the XOR
\* of the parity seed with all bits of the span (Some(false) exactly when
\* the number of true bits among seed and span is even), and the result is
\* the same for (start, stop) and (stop, start).
\* ------------------------------------------------------------------------
\* the positions of the span
C29_Span(start, stop) ==
    (IF start < stop THEN start ELSE stop)..(IF start < stop THEN stop ELSE start)

\* the number of true bits among seed and span
C29_Ones(bit_buffer, start, stop, parity) ==
    Cardinality({q \in C29_Span(start, stop) : bit_buffer[q + 1] = Some(TRUE)})
        + (IF parity = Some(TRUE) THEN 1 ELSE 0)

C29_Expected(bit_buffer, start, stop, parity) ==
    IF \/ is_none(parity)
       \/ \E q \in C29_Span(start, stop) : is_none(bit_buffer[q + 1])
    THEN None
    ELSE Some(C29_Ones(bit_buffer, start, stop, parity) % 2 = 1)

C29_ParityOfSpan ==
    last_op = "get_parity" =>
        /\ ~panicked
        /\ result = C29_Expected(last_args[1], last_args[2], last_args[3],
                                 last_args[4])
        /\ result = get_parity(last_args[1], last_args[3], last_args[2],
                               last_args[4])

\* the bits 1, 0, 0 at the positions 1 to 3, read from 3 down to 1 with an
\* even seed, have odd parity
C29_Witness ==
    /\ last_op = "get_parity"
    /\ last_args[2] = 3
    /\ last_args[3] = 1
    /\ last_args[4] = Some(FALSE)
    /\ SubSeq(last_args[1], 1, 4) =
           <<Some(FALSE), Some(TRUE), Some(FALSE), Some(FALSE)>>
    /\ result = Some(TRUE)

\* ------------------------------------------------------------------------
\* increase_second(second, new_minute, minute_length), on the counter the
\* caller lends to the call
\* ------------------------------------------------------------------------
BIT_BUFFER_SIZE == 61 + 1

\* a counter that is taken back one position too late
second_past_buffer_size(s) == s > BIT_BUFFER_SIZE

\* (*second as usize) == BIT_BUFFER_SIZE
second_at_buffer_size(s) == s = BIT_BUFFER_SIZE

\* a counter that wraps at the length of the minute only
second_wraps_at_length_only(s, minute_length) == s = minute_length

\* "wrap in case we missed the minute marker"
second_wraps(s, minute_length) ==
    s = minute_length \/ second_at_buffer_size(s)

increase_second(new_minute, minute_length) ==
    /\ ~panicked
    /\ UNCHANGED instance
    /\ IF new_minute
       THEN /\ second' = 0
            /\ result' = Some(TRUE)
            /\ UNCHANGED panicked
       ELSE LET second_raw == second + 1
                s == WrapU8(second_raw)
                builds == IF OverflowsU8(second_raw) THEN BOOLEAN ELSE {FALSE}
            IN  \E aborts \in builds :
                    IF aborts
                    THEN /\ panicked' = TRUE
                         /\ result' = None
                         /\ UNCHANGED second
                    ELSE /\ second' = (IF second_wraps(s, minute_length)
                                       THEN 0 ELSE s)
                         /\ result' = Some(~second_wraps(s, minute_length))
                         /\ UNCHANGED panicked

\* ------------------------------------------------------------------------
\* SpecSecond: a decoder that starts with a counter below BIT_BUFFER_SIZE
\* and calls increase_second() once per second, with and without a minute
\* marker, for minutes of any of the lengths below
\* ------------------------------------------------------------------------
SecondLengths == {0, 1, 59, 60, 61, 62, 63, U8_MAX}

InitSecond ==
    /\ sunday = 7
    /\ new(sunday)
    /\ panicked = FALSE
    /\ result = None
    /\ last_op = "new"
    /\ minutes_added = 0
    /\ call_jumped = [f \in Fields |-> FALSE]
    /\ accepted_jumped = [f \in Fields |-> FALSE]
    /\ last_args = <<>>
    /\ second \in 0..(BIT_BUFFER_SIZE - 1)

IncreaseSecond ==
    \E new_minute \in BOOLEAN, minute_length \in SecondLengths :
        /\ increase_second(new_minute, minute_length)
        /\ last_op' = "increase_second"
        /\ last_args' = <<new_minute, minute_length>>
        /\ UNCHANGED <<sunday, minutes_added, call_jumped, accepted_jumped>>

NextSecond == IncreaseSecond

SpecSecond == InitSecond /\ [][NextSecond]_vars

\* ------------------------------------------------------------------------
\* C30. increase_second() sets second to 0 and returns true when new_minute
\* is true; otherwise it adds one to second and, if the result equals
\* minute_length or BIT_BUFFER_SIZE, sets second to 0 and returns false,
\* else returns true with the incremented value.
\* ------------------------------------------------------------------------
C30_Step ==
    last_op' = "increase_second" =>
        /\ ~panicked'
        /\ IF last_args'[1]
           THEN second' = 0 /\ result' = Some(TRUE)
           ELSE IF second + 1 \in {last_args'[2], BIT_BUFFER_SIZE}
                THEN second' = 0 /\ result' = Some(FALSE)
                ELSE second' = second + 1 /\ result' = Some(TRUE)

C30_IncreaseOrWrap == [][C30_Step]_vars

\* the spare position of the bit buffer was in use and no minute marker
\* came: the counter wraps at BIT_BUFFER_SIZE, below the length passed
C30_Witness ==
    /\ last_op = "increase_second"
    /\ last_args = <<FALSE, 63>>
    /\ second = 0
    /\ result = Some(FALSE)

\* ------------------------------------------------------------------------
\* C31. When increase_second() is called with new_minute false and a second
\* that is already out of range (second >= minute_length or second >=
\* BIT_BUFFER_SIZE), the call aborts instead of returning a result.
\* ------------------------------------------------------------------------
C31_OutOfRange(s, minute_length) ==
    s >= minute_length \/ s >= BIT_BUFFER_SIZE

C31_Step ==
    (/\ last_op' = "increase_second"
     /\ ~last_args'[1]
     /\ C31_OutOfRange(second, last_args'[2]))
        => panicked' /\ result' = None

C31_OutOfRangeAborts == [][C31_Step]_vars

\* ------------------------------------------------------------------------
\* SpecMidnight: a decoder that received a whole date, one field per call in
\* the order of the calls below, at 23:59, in winter time without an
\* announced change, and then predicts the next minute with add_minute()
\* ------------------------------------------------------------------------
MidnightYears == {0, 1, 4, 99}

MidnightMonths == 1..12

MidnightWeekdays == 1..7

MidnightDays == {1, 27, 28, 29, 30, 31}

MidnightSetYear ==
    /\ last_op = "new"
    /\ \E value \in MidnightYears :
           set_year(Some(value), TRUE, FALSE) /\ Seen("set_year")

MidnightSetMonth ==
    /\ last_op = "set_year"
    /\ \E value \in MidnightMonths :
           set_month(Some(value), TRUE, FALSE) /\ Seen("set_month")

MidnightSetWeekday ==
    /\ last_op = "set_month"
    /\ \E value \in MidnightWeekdays :
           set_weekday(Some(value), TRUE, FALSE) /\ Seen("set_weekday")

MidnightSetDay ==
    /\ last_op = "set_weekday"
    /\ \E value \in MidnightDays :
           set_day(Some(value), TRUE, FALSE) /\ Seen("set_day")

MidnightSetHour ==
    /\ last_op = "set_day"
    /\ set_hour(Some(23), TRUE, FALSE)
    /\ Seen("set_hour")

MidnightSetMinute ==
    /\ last_op = "set_hour"
    /\ set_minute(Some(59), TRUE, FALSE)
    /\ Seen("set_minute")

MidnightSetDst ==
    /\ last_op = "set_minute"
    /\ set_dst(Some(FALSE), Some(FALSE), FALSE)
    /\ Seen("set_dst")

MidnightAddMinute ==
    /\ last_op = "set_dst"
    /\ AddMinute

NextMidnight ==
    \/ MidnightSetYear
    \/ MidnightSetMonth
    \/ MidnightSetWeekday
    \/ MidnightSetDay
    \/ MidnightSetHour
    \/ MidnightSetMinute
    \/ MidnightSetDst
    \/ MidnightAddMinute

SpecMidnight == InitDst /\ [][NextMidnight]_vars

\* ------------------------------------------------------------------------
\* C32. A successful add_minute() at 23:59 on day d of month m gives day
\* d + 1 of the same month when d is below the calendar's last day of that
\* month and day 1 of the next month otherwise, where February of year 0 has
\* 29 days exactly when the stored day and weekday place February 28 on a
\* Monday; from Monday February 28 of year 0 the result is Tuesday
\* February 29.
\* ------------------------------------------------------------------------
\* the calendar's last day of month m of year y, when day d is weekday wday
C32_LastDay(y, m, d, wday) ==
    CASE m \in {4, 6, 9, 11} -> 30
      [] m \in {1, 3, 5, 7, 8, 10, 12} -> 31
      [] m = 2 /\ y # 0 -> IF y % 4 = 0 THEN 29 ELSE 28
      [] m = 2 /\ y = 0 ->
            IF C16_WeekdayOfFeb28(d, wday) = 1 THEN 29 ELSE 28

C32_Step ==
    (/\ last_op' = "add_minute"
     /\ result' = Some(TRUE)
     /\ hour = Some(23)
     /\ minute = Some(59))
        => LET d == unwrap(day)
               m == unwrap(month)
               last == C32_LastDay(unwrap(year), m, d, unwrap(weekday))
           IN  IF d < last
               THEN day' = Some(d + 1) /\ month' = month
               ELSE day' = Some(1) /\ month' = Some(IF m = 12 THEN 1 ELSE m + 1)

C32_NextDayByCalendar == [][C32_Step]_vars

\* ------------------------------------------------------------------------
\* C33. After a set_dst() call with both inputs present, DST_JUMP is set
\* exactly when check_jump was true, the passed value differed from the
\* stored DST_SUMMER bit and the change was not accepted in this call; a
\* DST_JUMP bit left by an earlier call never survives the call on its own.
\* ------------------------------------------------------------------------
\* the DST_JUMP bit of a mask that may be absent
C33_Jump(mask) == is_some(mask) /\ HasBit(unwrap(mask), DST_JUMP)

\* the call took over the passed value: DST_SUMMER changed
C33_Accepted == summer(dst') # summer(dst)

C33_Step ==
    (last_op' = "set_dst" /\ ~panicked') =>
        C33_Jump(dst') = (/\ last_args'[3]
                          /\ last_args'[1] # summer(dst)
                          /\ ~C33_Accepted)

C33_JumpExactlyOnRefusedChange == [][C33_Step]_vars

\* an unannounced change to summer time within the hour was flagged and not
\* taken over
C33_Witness ==
    /\ last_op = "set_dst"
    /\ last_args = <<TRUE, FALSE, TRUE>>
    /\ minute = Some(5)
    /\ C33_Jump(dst)
    /\ ~summer(dst)

\* ------------------------------------------------------------------------
\* C34. When the stored minute is absent, a set_dst() call made after the
\* first effective one and any set_leap_second() call leave the ANNOUNCED,
\* PROCESSED, SUMMER and MISSING bits exactly as they were, while a call
\* that is not ignored and has announce == Some(true) still adds one to the
\* announcement counter.
\* ------------------------------------------------------------------------
\* the bits of a mask, which may be absent, that are not jump flags
C34_DstBits(mask) == <<announced(mask), processed(mask), summer(mask)>>

C34_LeapBits(mask) ==
    IF is_none(mask) THEN <<FALSE, FALSE, FALSE>>
    ELSE <<HasBit(unwrap(mask), LEAP_ANNOUNCED),
           HasBit(unwrap(mask), LEAP_PROCESSED),
           HasBit(unwrap(mask), LEAP_MISSING)>>

\* the call is a set_dst() after the first effective one, without a minute
C34_LaterSetDst ==
    last_op' = "set_dst" /\ is_none(minute) /\ ~first_minute /\ ~panicked'

\* the call is a set_leap_second() without a minute
C34_SetLeapSecond ==
    last_op' = "set_leap_second" /\ is_none(minute) /\ ~panicked'

C34_Step ==
    /\ C34_LaterSetDst =>
           /\ C34_DstBits(dst') = C34_DstBits(dst)
           /\ dst_count' =
                  (IF is_some(last_args'[1]) /\ last_args'[2] = Some(TRUE)
                   THEN dst_count + 1 ELSE dst_count)
    /\ C34_SetLeapSecond =>
           /\ C34_LeapBits(leap_second') = C34_LeapBits(leap_second)
           /\ leap_second_count' =
                  (IF last_args'[1] = Some(TRUE) /\ last_args'[2] \in {60, 61}
                   THEN leap_second_count + 1 ELSE leap_second_count)

C34_EveryAnnouncementStep ==
    /\ C34_LaterSetDst =>
           /\ C34_DstBits(dst') = C34_DstBits(dst)
           /\ last_args'[2] = Some(TRUE) => dst_count' = dst_count + 1
    /\ C34_SetLeapSecond =>
           /\ C34_LeapBits(leap_second') = C34_LeapBits(leap_second)
           /\ last_args'[1] = Some(TRUE) =>
                  leap_second_count' = leap_second_count + 1

FrameYears == {20, 21}

FrameMonths == {2, 3}

FrameWeekdays == {1, 2}

FrameDays == {1, 2}

FrameHours == {10, 11}

FrameMinutes == {0, 5}

FrameSetYear ==
    /\ last_op \in {"new", "set_leap_second", "clear_jumps"}
    /\ \E value \in FrameYears :
           set_year(Some(value), TRUE, TRUE) /\ Seen("set_year")

FrameSetMonth ==
    /\ last_op = "set_year"
    /\ \E value \in FrameMonths :
           set_month(Some(value), TRUE, TRUE) /\ Seen("set_month")

FrameSetWeekday ==
    /\ last_op = "set_month"
    /\ \E value \in FrameWeekdays :
           set_weekday(Some(value), TRUE, TRUE) /\ Seen("set_weekday")

FrameSetDay ==
    /\ last_op = "set_weekday"
    /\ \E value \in FrameDays :
           set_day(Some(value), TRUE, TRUE) /\ Seen("set_day")

FrameSetHour ==
    /\ last_op = "set_day"
    /\ \E value \in FrameHours :
           set_hour(Some(value), TRUE, TRUE) /\ Seen("set_hour")

FrameSetMinute ==
    /\ last_op = "set_hour"
    /\ \E value \in FrameMinutes :
           set_minute(Some(value), TRUE, TRUE) /\ Seen("set_minute")

FrameSetDst ==
    /\ last_op = "set_minute"
    /\ \E value \in BOOLEAN, announce \in BOOLEAN :
           /\ announce => dst_count < MaxCount
           /\ set_dst(Some(value), Some(announce), TRUE)
           /\ Seen("set_dst")

FrameSetLeapSecond ==
    /\ last_op = "set_dst"
    /\ set_leap_second(Some(FALSE), 60)
    /\ Seen("set_leap_second")

FrameClearJumps ==
    /\ last_op \in {"new", "set_leap_second"}
    /\ ClearJumps

NextFrames ==
    \/ FrameSetYear
    \/ FrameSetMonth
    \/ FrameSetWeekday
    \/ FrameSetDay
    \/ FrameSetHour
    \/ FrameSetMinute
    \/ FrameSetDst
    \/ FrameSetLeapSecond
    \/ FrameClearJumps

SpecFrames == InitDst /\ [][NextFrames]_vars

\* ------------------------------------------------------------------------
\* C35. clear_jumps() sets all six jump flags to false and clears only the
\* DST_JUMP bit of a present dst mask; the other dst bits, an absent dst,
\* leap_second, the clock fields and all counters are unchanged.
\* ------------------------------------------------------------------------
C35_Step ==
    last_op' = "clear_jumps" =>
        /\ jumps' = <<FALSE, FALSE, FALSE, FALSE, FALSE, FALSE>>
        /\ is_none(dst) => is_none(dst')
        /\ is_some(dst) =>
               /\ is_some(dst')
               /\ ~C33_Jump(dst')
               /\ unwrap(dst') \in 0..15
               /\ C34_DstBits(dst') = C34_DstBits(dst)
        /\ UNCHANGED <<clock, weekday_bounds, leap_second, counters>>

C35_ClearJumpsClearsOnlyJumps == [][C35_Step]_vars

\* clear_jumps() after a frame that changed every field and left an
\* announcement in the mask of a summer's day
C35_Witness ==
    /\ last_op = "clear_jumps"
    /\ clock = <<Some(21), Some(3), Some(2), Some(2), Some(11), Some(5)>>
    /\ dst = Some(DST_SUMMER + DST_ANNOUNCED)
    /\ leap_second = Some(0)
    /\ dst_count = 1

\* ------------------------------------------------------------------------
\* C36. In every reachable state a present dst mask contains only the bits
\* ANNOUNCED, PROCESSED, JUMP and SUMMER and never has ANNOUNCED and
\* PROCESSED set together; a present leap_second mask contains only
\* ANNOUNCED, PROCESSED and MISSING and never has ANNOUNCED and PROCESSED set
\* together.
\* ------------------------------------------------------------------------
C36_DstMaskWellFormed ==
    is_some(dst) =>
        /\ unwrap(dst) \in
               0..(DST_ANNOUNCED + DST_PROCESSED + DST_JUMP + DST_SUMMER)
        /\ ~(announced(dst) /\ processed(dst))

C36_LeapMaskWellFormed ==
    is_some(leap_second) =>
        /\ unwrap(leap_second) \in
               0..(LEAP_ANNOUNCED + LEAP_PROCESSED + LEAP_MISSING)
        /\ ~(/\ HasBit(unwrap(leap_second), LEAP_ANNOUNCED)
             /\ HasBit(unwrap(leap_second), LEAP_PROCESSED))

C36_MasksWellFormed == C36_DstMaskWellFormed /\ C36_LeapMaskWellFormed

\* both announcements were processed at the hour: the masks hold PROCESSED
\* without ANNOUNCED
C36_Witness ==
    /\ minute = Some(0)
    /\ dst = Some(DST_PROCESSED + DST_SUMMER)
    /\ leap_second = Some(LEAP_PROCESSED + LEAP_MISSING)

\* ------------------------------------------------------------------------
\* C37. In every reachable state LEAP_MISSING is set in the leap_second mask
\* only if LEAP_PROCESSED is set too.
\* ------------------------------------------------------------------------
C37_Missing ==
    is_some(leap_second) /\ HasBit(unwrap(leap_second), LEAP_MISSING)

C37_MissingOnlyWhenProcessed ==
    C37_Missing => HasBit(unwrap(leap_second), LEAP_PROCESSED)

\* an announced leap second did not come: the minute at the hour had 60
\* seconds
C37_Witness ==
    /\ last_op = "set_leap_second"
    /\ last_args = <<FALSE, 60>>
    /\ C37_Missing
    /\ leap_second_count = 0

\* ------------------------------------------------------------------------
\* SpecCounters: a decoder far from the top of the hour.  It has no minute
\* yet or minute 5, and hands an announcement to set_dst() and to
\* set_leap_second() and calls bump_minutes_running() once per received
\* minute, for as long as the calls complete.
\* ------------------------------------------------------------------------
CounterSetMinute ==
    /\ last_op = "new"
    /\ set_minute(Some(5), TRUE, FALSE)
    /\ Seen("set_minute")

CounterSetDst ==
    /\ last_op \in {"new", "set_minute", "bump_minutes_running"}
    /\ set_dst(Some(FALSE), Some(TRUE), FALSE)
    /\ SeenCall("set_dst", <<FALSE, TRUE, FALSE>>)

CounterSetLeapSecond ==
    /\ last_op = "set_dst"
    /\ set_leap_second(Some(TRUE), 60)
    /\ SeenCall("set_leap_second", <<TRUE, 60>>)

CounterBumpMinutesRunning ==
    /\ last_op = "set_leap_second"
    /\ bump_minutes_running
    /\ Seen("bump_minutes_running")

NextCounters ==
    \/ CounterSetMinute
    \/ CounterSetDst
    \/ CounterSetLeapSecond
    \/ CounterBumpMinutesRunning

SpecCounters == InitDst /\ [][NextCounters]_vars

\* ------------------------------------------------------------------------
\* C38. No 8-bit counter overflows: for any sequence of set_minute(),
\* set_dst(), set_leap_second() and bump_minutes_running() calls, including
\* sequences in which the stored minute is absent or never 0, dst_count,
\* leap_second_count, minutes_running, 2 * dst_count and
\* 2 * leap_second_count stay within 0..=255, so every call completes.
\* ------------------------------------------------------------------------
\* a counted call away from the top of the hour leaves the counter one
\* higher, and the product the majority test computes fits the u8
C38_Step ==
    /\ ~panicked'
    /\ (last_op' = "set_dst" /\ minute # Some(0)) =>
           /\ dst_count' = dst_count + 1
           /\ minute_in_hour => 2 * dst_count' <= U8_MAX
    /\ (last_op' = "set_leap_second" /\ minute # Some(0)) =>
           /\ leap_second_count' = leap_second_count + 1
           /\ minute_in_hour => 2 * leap_second_count' <= U8_MAX
    /\ (last_op' = "bump_minutes_running" /\ minute # Some(0)) =>
           minutes_running' = minutes_running + 1

C38_NoCounterOverflows == [][C38_Step]_vars

\* ------------------------------------------------------------------------
\* C39. In add_minute() the -1 hour pre-adjustment (minute 59, DST_ANNOUNCED
\* and DST_SUMMER set) never takes the unsigned 8-bit hour below 0, for
\* every stored hour 0..=23, so the call completes and returns true for
\* every valid state.
\* ------------------------------------------------------------------------
\* the step is add_minute() on a valid instance that is about to change to
\* winter time
C39_ToWinter ==
    /\ last_op' = "add_minute"
    /\ is_valid
    /\ minute = Some(59)
    /\ announced(dst)
    /\ summer(dst)

C39_Step ==
    C39_ToWinter =>
        /\ pre_adjusted_hour(unwrap(hour), unwrap(dst)) >= 0
        /\ ~panicked'
        /\ result' = Some(TRUE)

C39_HourNeverBelowZero == [][C39_Step]_vars

\* ------------------------------------------------------------------------
\* C40. Starting from a second counter below BIT_BUFFER_SIZE (62), after
\* any sequence of increase_second() calls with any new_minute values and
\* any minute_length values the counter is still below BIT_BUFFER_SIZE, so
\* it is always a valid index into the bit buffer.
\* ------------------------------------------------------------------------
C40_SecondIsValidIndex == second \in 0..(BIT_BUFFER_SIZE - 1)

\* the counter went on to the last position of the buffer, past the length
\* of the minute
C40_Witness ==
    /\ last_op = "increase_second"
    /\ last_args = <<FALSE, 60>>
    /\ second = BIT_BUFFER_SIZE - 1
    /\ result = Some(TRUE)

====
